---- MODULE Spec2Model ----
(***************************************************************************)
(* Tile-based Pac-Man clone (PacManRealFinal.py): the movement engine,     *)
(* the pursuer AI, the mode scheduler and the collision resolver, as a     *)
(* state machine.  One main-loop frame is the sequence of steps            *)
(*   events -> mode timer -> player -> ghosts -> check_collisions -> win   *)
(* and the variable pc records the position inside the frame.              *)
(*                                                                         *)
(* Pixel coordinates are kept in units of 1/5 pixel, so that every speed   *)
(* of the program (2.6, 1.6, 1.4, 1.0, 3.2 px/frame) is an integer.  The   *)
(* screen offsets OFFSET_X, OFFSET_Y are a translation of all pixel        *)
(* coordinates that depends on the display; they are taken as 0.           *)
(*                                                                         *)
(* A mover's float position (px, py) is held exactly: on an axis-aligned   *)
(* leg the fields px, py are the position itself and run = 0.  On an       *)
(* oblique leg (an eaten pursuer that leaves from where it was caught,     *)
(* between two tile centres) the position is irrational; there px, py are  *)
(* the point where the leg began and run is the distance covered since,    *)
(* so the position is (px, py) + run * (unit vector to the target centre), *)
(* which Pos rounds to the nearest 1/5 pixel.                              *)
(***************************************************************************)
EXTENDS Integers, Sequences, FiniteSets, TLC

VARIABLES
  pc,                    \* position inside the main-loop iteration
  paused, game_over, win,
  mode_index, mode_timer,
  ghosts_eaten_in_power,
  pellets, power_pellets,
  player,                \* the Pacman object
  ghosts,                \* the four Ghost objects, by idx 0..3
  frame,                 \* number of simulated ticks so far (bounds the runs)
  frozen                 \* the last frame drew only (paused, or round over)

vars == <<pc, paused, game_over, win, mode_index, mode_timer,
          ghosts_eaten_in_power, pellets, power_pellets, player, ghosts, frame, frozen>>

\* ---------------------------------------------------------------- CONFIG
\* MAZE[y+1][x+1] is the character of row y, column x of the source's MAZE.
MAZE ==
  <<
  <<"#","#","#","#","#","#","#","#","#","#","#","#","#","#","#","#","#","#","#","#","#","#","#","#","#","#","#","#">>,
  <<"#",".",".",".",".",".",".",".",".",".",".",".",".","#","#",".",".",".",".",".",".",".",".",".",".",".",".","#">>,
  <<"#",".","#","#","#","#",".","#","#","#","#","#",".","#","#",".","#","#","#","#","#",".","#","#","#","#",".","#">>,
  <<"#","o","#","#","#","#",".","#","#","#","#","#",".","#","#",".","#","#","#","#","#",".","#","#","#","#","o","#">>,
  <<"#",".","#","#","#","#",".","#","#","#","#","#",".","#","#",".","#","#","#","#","#",".","#","#","#","#",".","#">>,
  <<"#",".",".",".",".",".",".",".",".",".",".",".",".",".",".",".",".",".",".",".",".",".",".",".",".",".",".","#">>,
  <<"#",".","#","#","#","#",".","#","#",".","#","#","#","#","#","#","#","#",".","#","#",".","#","#","#","#",".","#">>,
  <<"#",".","#","#","#","#",".","#","#",".","#","#","#","#","#","#","#","#",".","#","#",".","#","#","#","#",".","#">>,
  <<"#",".",".",".",".",".",".","#","#",".",".",".",".","#","#",".",".",".",".","#","#",".",".",".",".",".",".","#">>,
  <<"#","#","#","#","#","#",".","#","#","#","#","#",".","#","#",".","#","#","#","#","#",".","#","#","#","#","#","#">>,
  <<" "," "," "," "," ","#",".","#","#","#","#","#",".","#","#",".","#","#","#","#","#",".","#"," "," "," "," "," ">>,
  <<" "," "," "," "," ","#",".","#","#"," "," "," "," "," "," "," "," "," "," ","#","#",".","#"," "," "," "," "," ">>,
  <<" "," "," "," "," ","#",".","#","#"," ","#","#","#","-","-","#","#","#"," ","#","#",".","#"," "," "," "," "," ">>,
  <<"#","#","#","#","#","#",".","#","#"," ","#"," "," "," "," "," "," ","#"," ","#","#",".","#","#","#","#","#","#">>,
  <<" "," "," "," "," "," ","."," "," "," ","#"," ","G","G"," "," "," ","#"," "," "," ","."," "," "," "," "," "," ">>,
  <<"#","#","#","#","#","#",".","#","#"," ","#"," "," "," "," "," "," ","#"," ","#","#",".","#","#","#","#","#","#">>,
  <<" "," "," "," "," ","#",".","#","#"," ","#","#","#","#","#","#","#","#"," ","#","#",".","#"," "," "," "," "," ">>,
  <<" "," "," "," "," ","#",".","#","#"," "," "," "," "," "," "," "," "," "," ","#","#",".","#"," "," "," "," "," ">>,
  <<" "," "," "," "," ","#",".","#","#"," ","#","#","#","#","#","#","#","#"," ","#","#",".","#"," "," "," "," "," ">>,
  <<"#","#","#","#","#","#",".","#","#"," ","#","#","#","#","#","#","#","#"," ","#","#",".","#","#","#","#","#","#">>,
  <<"#",".",".",".",".",".",".",".",".",".",".",".",".","#","#",".",".",".",".",".",".",".",".",".",".",".",".","#">>,
  <<"#",".","#","#","#","#",".","#","#","#","#","#",".","#","#",".","#","#","#","#","#",".","#","#","#","#",".","#">>,
  <<"#",".","#","#","#","#",".","#","#","#","#","#",".","#","#",".","#","#","#","#","#",".","#","#","#","#",".","#">>,
  <<"#","o",".",".","#","#",".",".",".",".",".",".",".",".",".",".",".",".",".",".",".",".","#","#",".",".","o","#">>,
  <<"#","#","#",".","#","#",".","#","#",".","#","#","#","#","#","#","#","#",".","#","#",".","#","#",".","#","#","#">>,
  <<"#","#","#",".","#","#",".","#","#",".","#","#","#","#","#","#","#","#",".","#","#",".","#","#",".","#","#","#">>,
  <<"#",".",".",".",".",".",".","#","#",".",".",".",".","#","#",".",".",".",".","#","#",".",".",".",".",".",".","#">>,
  <<"#",".","#","#","#","#","#","#","#","#","#","#",".","#","#",".","#","#","#","#","#","#","#","#","#","#",".","#">>,
  <<"#",".","#","#","#","#","#","#","#","#","#","#",".","#","#",".","#","#","#","#","#","#","#","#","#","#",".","#">>,
  <<"#",".",".",".",".",".",".",".",".",".",".",".",".",".",".",".",".",".",".",".",".",".",".",".",".",".",".","#">>,
  <<"#","#","#","#","#","#","#","#","#","#","#","#","#","#","#","#","#","#","#","#","#","#","#","#","#","#","#","#">>
  >>
MAZE_W == Len(MAZE[1])
MAZE_H == Len(MAZE)

\* TILE = 24 px (the display is assumed large enough that TILE is not adapted)
TILE == 24 * 5
FPS == 60
FRIGHT_DURATION == 8 * FPS
\* (mode, seconds) pairs; mode_index is 0-based as in the source
MODE_SEQUENCE ==
  << <<"scatter",7>>, <<"chase",20>>, <<"scatter",7>>, <<"chase",20>>,
     <<"scatter",5>>, <<"chase",20>>, <<"scatter",5>>, <<"chase",9999>> >>

\* speeds in 1/5 px per frame
PacSpeed == 13
speed_chase == 8
speed_scatter == 7
speed_fright == 5
speed_eyes == 16

\* None stands for Python's None in warp_target
None == <<>>
Dirs == << <<1,0>>, <<-1,0>>, <<0,1>>, <<0,-1>> >>
HOME == <<14,14>>

\* ----------------------------------------------------------------- UTILS
in_bounds(x, y) == 0 <= x /\ x < MAZE_W /\ 0 <= y /\ y < MAZE_H

is_wall(x, y) == IF ~in_bounds(x, y) THEN TRUE ELSE MAZE[y+1][x+1] = "#"

is_open(x, y) == IF ~in_bounds(x, y) THEN FALSE ELSE MAZE[y+1][x+1] # "#"

\* centre of tile coordinate t along one axis (OFFSET taken as 0)
tile_center_pixel(t) == t * TILE + TILE \div 2

Abs(n) == IF n < 0 THEN -n ELSE n

\* floor of the square root, by bisection on lo <= r < hi
RECURSIVE IsqrtIn(_, _, _)
IsqrtIn(n, lo, hi) ==
  IF hi - lo <= 1 THEN lo
  ELSE LET mid == (lo + hi) \div 2
       IN IF mid * mid <= n THEN IsqrtIn(n, mid, hi) ELSE IsqrtIn(n, lo, mid)
Isqrt(n) == IsqrtIn(n, 0, 46341)

\* a / b rounded to the nearest integer, b > 0
RoundDiv(a, b) ==
  IF a >= 0 THEN (2 * a + b) \div (2 * b) ELSE -((2 * (-a) + b) \div (2 * b))

\* ----------------------------------------------------------- LEVEL SETUP
AllTiles == {<<x, y>> : x \in 0..(MAZE_W - 1), y \in 0..(MAZE_H - 1)}
\* the item sets as reset_level builds them ('.' and 'o' cells only; the
\* pellets that module start-up adds on ' ' cells are discarded by the
\* reset_level() call that precedes the main loop)
LevelPellets == {t \in AllTiles : MAZE[t[2]+1][t[1]+1] = "."}
LevelPowerPellets == {t \in AllTiles : MAZE[t[2]+1][t[1]+1] = "o"}
\* the maze has no 'P' and only two 'G' cells: the fallbacks apply
pac_start == <<14, 23>>
ghost_starts == [i \in 0..3 |-> << <<13,14>>, <<14,14>>, <<12,14>>, <<15,14>> >>[i+1]]

\* -------------------------------------------------------------- TileMover
\* TileMover.__init__: the fields shared by the player and the pursuers
TileMover(tile) ==
  [tx |-> tile[1], ty |-> tile[2],
   px |-> tile_center_pixel(tile[1]), py |-> tile_center_pixel(tile[2]),
   run |-> 0,
   dx |-> 0, dy |-> 0, moving |-> FALSE, warping |-> FALSE, warp_target |-> None]

\* the pixel position (self.px, self.py), to the nearest 1/5 px
Pos(m) ==
  IF m.run = 0 THEN <<m.px, m.py>>
  ELSE LET vx == tile_center_pixel(m.tx + m.dx) - m.px
           vy == tile_center_pixel(m.ty + m.dy) - m.py
           len256 == Isqrt((vx * vx + vy * vy) * 65536)
       IN <<m.px + RoundDiv(vx * m.run * 256, len256),
            m.py + RoundDiv(vy * m.run * 256, len256)>>

at_center(m) ==
  /\ Abs(Pos(m)[1] - tile_center_pixel(m.tx)) < 5
  /\ Abs(Pos(m)[2] - tile_center_pixel(m.ty)) < 5

\* the return value of start_move
start_move_ok(m, dx, dy) ==
  LET nx == m.tx + dx
      ny == m.ty + dy
  IN \/ is_open(nx, ny)
     \/ /\ dy = 0
        /\ (nx < 0 \/ nx >= MAZE_W \/ ~is_open(nx, ny))
        /\ is_open(nx % MAZE_W, ny)

\* start_move without the is_open test: any in-grid neighbour is entered
start_move_unchecked(m, dx, dy) ==
  IF in_bounds(m.tx + dx, m.ty + dy)
  THEN [m EXCEPT !.dx = dx, !.dy = dy, !.moving = TRUE,
                 !.warping = FALSE, !.warp_target = None]
  ELSE m

\* the mover after start_move(dx, dy)
start_move(m, dx, dy) ==
  LET nx == m.tx + dx
      ny == m.ty + dy
  IN IF is_open(nx, ny)
     THEN [m EXCEPT !.dx = dx, !.dy = dy, !.moving = TRUE,
                    !.warping = FALSE, !.warp_target = None]
     ELSE IF /\ dy = 0
             /\ (nx < 0 \/ nx >= MAZE_W \/ ~is_open(nx, ny))
             /\ is_open(nx % MAZE_W, ny)
          THEN [m EXCEPT !.dx = dx, !.dy = dy, !.moving = TRUE,
                         !.warping = TRUE, !.warp_target = <<nx % MAZE_W, ny>>]
          ELSE m

\* squared distance from the point (px, py) to the centre of the tile the
\* mover is heading to
DistSq(m) ==
  LET vx == tile_center_pixel(m.tx + m.dx) - m.px
      vy == tile_center_pixel(m.ty + m.dy) - m.py
  IN vx * vx + vy * vy

\* dist <= speed, dist being the distance that remains to the target centre
Reached(m, speed) == DistSq(m) < (m.run + speed) * (m.run + speed)
OnEdge(m, speed) == DistSq(m) = (m.run + speed) * (m.run + speed)

\* The comparison dist <= speed is made on floats.  When the exact distance
\* equals the speed the rounding of the accumulated position decides it,
\* and both outcomes occur (at 1.6 px/frame a tile takes 15 or 16 frames
\* depending on the tile): late = TRUE is the outcome "not yet arrived".
Lates(m, speed) ==
  IF m.moving /\ OnEdge(m, speed) THEN {FALSE, TRUE} ELSE {FALSE}

Arrives(m, speed, late) ==
  m.moving /\ (Reached(m, speed) \/ (OnEdge(m, speed) /\ ~late))

Sign(v) == IF v < 0 THEN -1 ELSE IF v > 0 THEN 1 ELSE 0

\* the warp branch of an arrival without the automatic continuation
warp_arrival_stop(m) ==
  [m EXCEPT !.tx = m.warp_target[1], !.ty = m.warp_target[2],
            !.px = tile_center_pixel(m.warp_target[1]),
            !.py = tile_center_pixel(m.warp_target[2]),
            !.run = 0,
            !.warping = FALSE, !.warp_target = None,
            !.moving = FALSE]

\* the warp branch of an arrival: snap to the wrapped tile, clear the warp
\* state, then start_move again in the same direction
warp_arrival(m) ==
  start_move(
    [m EXCEPT !.tx = m.warp_target[1], !.ty = m.warp_target[2],
              !.px = tile_center_pixel(m.warp_target[1]),
              !.py = tile_center_pixel(m.warp_target[2]),
              !.run = 0,
              !.warping = FALSE, !.warp_target = None,
              !.moving = FALSE],
    m.dx, m.dy)

update_position_pixels(m, speed, late) ==
  IF ~m.moving THEN m
  ELSE
    LET target_cx == tile_center_pixel(m.tx + m.dx)
        target_cy == tile_center_pixel(m.ty + m.dy)
        vx == target_cx - m.px
        vy == target_cy - m.py
    IN IF Arrives(m, speed, late)
       THEN IF m.warping /\ m.warp_target # None
            THEN warp_arrival(m)
            ELSE [m EXCEPT !.tx = m.tx + m.dx, !.ty = m.ty + m.dy,
                           !.px = target_cx, !.py = target_cy, !.run = 0,
                           !.moving = FALSE]
       ELSE IF vx = 0 \/ vy = 0
            THEN \* (vx / dist) * speed is +-speed or 0
                 [m EXCEPT !.px = m.px + Sign(vx) * speed,
                           !.py = m.py + Sign(vy) * speed]
            ELSE \* an oblique leg: speed more along the same line
                 [m EXCEPT !.run = m.run + speed]

\* ----------------------------------------------------------------- Pacman
\* Pacman.__init__
Pacman(tile) ==
  LET m == TileMover(tile)
  IN [tx |-> m.tx, ty |-> m.ty, px |-> m.px, py |-> m.py, run |-> m.run,
      dx |-> m.dx, dy |-> m.dy,
      moving |-> m.moving, warping |-> m.warping, warp_target |-> m.warp_target,
      next_dx |-> 0, next_dy |-> 0,
      lives |-> 3, score |-> 0, alive |-> TRUE, respawn_timer |-> 0]

queue_dir(p, dx, dy) == [p EXCEPT !.next_dx = dx, !.next_dy = dy]

\* the idle branch of Pacman.update: queued direction first, then the
\* current one
Pacman_turn(p) ==
  IF p.moving THEN p
  ELSE IF <<p.next_dx, p.next_dy>> # <<0, 0>>
       THEN IF start_move_ok(p, p.next_dx, p.next_dy)
            THEN [start_move(p, p.next_dx, p.next_dy) EXCEPT !.next_dx = 0, !.next_dy = 0]
            ELSE IF <<p.dx, p.dy>> # <<0, 0>> THEN start_move(p, p.dx, p.dy) ELSE p
       ELSE IF <<p.dx, p.dy>> # <<0, 0>> THEN start_move(p, p.dx, p.dy) ELSE p

Pacman_update(p, late) == update_position_pixels(Pacman_turn(p), PacSpeed, late)

\* a death that starts a countdown of one second only
die_short_countdown(p) == [p EXCEPT !.lives = p.lives - 1, !.alive = FALSE, !.respawn_timer = FPS]

die(p) == [p EXCEPT !.lives = p.lives - 1, !.alive = FALSE, !.respawn_timer = 2 * FPS]

respawn(p) ==
  [p EXCEPT !.tx = pac_start[1], !.ty = pac_start[2],
            !.px = tile_center_pixel(pac_start[1]), !.py = tile_center_pixel(pac_start[2]),
            !.run = 0,
            !.dx = 0, !.dy = 0, !.moving = FALSE, !.warping = FALSE,
            !.warp_target = None, !.alive = TRUE]

\* ------------------------------------------------------------------ Ghost
\* Ghost.__init__ (idx is the index in ghosts; start_tile is ghost_starts[idx])
Ghost(tile) ==
  LET m == TileMover(tile)
  IN [tx |-> m.tx, ty |-> m.ty, px |-> m.px, py |-> m.py, run |-> m.run,
      dx |-> m.dx, dy |-> m.dy,
      moving |-> m.moving, warping |-> m.warping, warp_target |-> m.warp_target,
      mode |-> "scatter", dead |-> FALSE, fright_timer |-> 0]

\* an eaten pursuer that turns to Eyes without being flagged dead
kill_without_flag(g) ==
  [g EXCEPT !.mode = "eyes", !.dx = 0, !.dy = 0,
            !.moving = FALSE, !.warping = FALSE, !.warp_target = None]

kill_and_become_eyes(g) ==
  [g EXCEPT !.dead = TRUE, !.mode = "eyes", !.dx = 0, !.dy = 0,
            !.moving = FALSE, !.warping = FALSE, !.warp_target = None]

target_tile(idx, g, pac, blinky_tile) ==
  IF idx = 0 THEN <<pac.tx, pac.ty>>
  ELSE IF idx = 1 THEN <<pac.tx + 4 * pac.dx, pac.ty + 4 * pac.dy>>
  ELSE IF idx = 2
       THEN LET tx == pac.tx + 2 * pac.dx
                ty == pac.ty + 2 * pac.dy
            IN <<tx + (tx - blinky_tile[1]), ty + (ty - blinky_tile[2])>>
       ELSE LET ex == pac.tx - g.tx
                ey == pac.ty - g.ty
            IN IF ex * ex + ey * ey > 8 * 8 THEN <<pac.tx, pac.ty>>
               ELSE <<0, MAZE_H - 1>>

\* the directions start_move would accept, the wrap through the tunnel
\* among them
Candidates_through_tunnel(g) ==
  LET Legal(d) == /\ start_move_ok(g, d[1], d[2])
                  /\ <<-d[1], -d[2]>> # <<g.dx, g.dy>>
      c == SelectSeq(Dirs, Legal)
  IN IF c = <<>> THEN << <<-g.dx, -g.dy>> >> ELSE c

\* the open directions, the reverse among them
Candidates_with_reverse(g) ==
  LET Legal(d) == is_open(g.tx + d[1], g.ty + d[2])
  IN SelectSeq(Dirs, Legal)

\* the legal, non-reversing directions in enumeration order (right, left,
\* down, up); the reverse alone when there is none
Candidates(g) ==
  LET Legal(d) == /\ is_open(g.tx + d[1], g.ty + d[2])
                  /\ <<-d[1], -d[2]>> # <<g.dx, g.dy>>
  IN CHOOSE r \in {IF c = <<>> THEN << <<-g.dx, -g.dy>> >> ELSE c :
                    c \in {SelectSeq(Dirs, Legal)}} : TRUE

\* the scan of choose_direction_toward over the list choices: the first
\* direction whose neighbour tile is nearest to target
best_choice(g, target, choices) ==
  LET D(k) == LET ex == g.tx + choices[k][1] - target[1]
                  ey == g.ty + choices[k][2] - target[2]
              IN ex * ex + ey * ey
      best == CHOOSE k \in 1..Len(choices) :
                /\ \A j \in 1..Len(choices) : D(k) <= D(j)
                /\ \A j \in 1..(k - 1) : D(j) > D(k)
  IN [g EXCEPT !.dx = choices[best][1], !.dy = choices[best][2]]

\* the list is built once, then scanned
choose_direction_toward(g, target) ==
  CHOOSE h \in {best_choice(g, target, choices) : choices \in {Candidates(g)}} : TRUE

corners == << <<MAZE_W - 1, 0>>, <<0, 0>>, <<MAZE_W - 1, MAZE_H - 1>>, <<0, MAZE_H - 1>> >>

\* the frightened countdown at the top of Ghost.update
fright_tick(g) ==
  IF g.mode = "frightened" /\ ~g.dead
  THEN [g EXCEPT !.fright_timer = g.fright_timer - 1,
                 !.mode = IF g.fright_timer - 1 <= 0 THEN "chase" ELSE "frightened"]
  ELSE g

\* the one element of a singleton set
The(S) == CHOOSE r \in S : TRUE

\* an aim whose Frightened draw is made among all open directions
Ghost_aim_any(idx, g, pac, blinky_tile, c) ==
  IF g.mode = "eyes" THEN choose_direction_toward(g, HOME)
  ELSE IF g.mode = "frightened"
       THEN [g EXCEPT !.dx = Candidates_with_reverse(g)[c][1],
                      !.dy = Candidates_with_reverse(g)[c][2]]
       ELSE IF g.mode = "scatter"
            THEN choose_direction_toward(g, corners[idx + 1])
            ELSE choose_direction_toward(g, target_tile(idx, g, pac, blinky_tile))

\* the direction Ghost.update picks at a tile centre; c is the index
\* random.choice draws among the candidates in Frightened mode
Ghost_aim(idx, g, pac, blinky_tile, c) ==
  IF g.mode = "eyes" THEN choose_direction_toward(g, HOME)
  ELSE IF g.mode = "frightened"
       THEN [g EXCEPT !.dx = Candidates(g)[c][1], !.dy = Candidates(g)[c][2]]
       ELSE IF g.mode = "scatter"
            THEN choose_direction_toward(g, corners[idx + 1])
            ELSE choose_direction_toward(g, target_tile(idx, g, pac, blinky_tile))

\* the decision of Ghost.update when not in transit: aim, then start_move
Ghost_decide(idx, g, pac, blinky_tile, c) ==
  IF g.moving THEN g
  ELSE The({start_move(h, h.dx, h.dy) : h \in {Ghost_aim(idx, g, pac, blinky_tile, c)}})

GhostSpeed(g) ==
  IF g.mode = "eyes" THEN speed_eyes
  ELSE IF g.mode = "frightened" THEN speed_fright
       ELSE IF g.mode = "chase" THEN speed_chase ELSE speed_scatter

\* a revival that puts the pursuer back into the power window it was eaten in
Ghost_home_refrightened(g) ==
  IF g.mode = "eyes" /\ <<g.tx, g.ty>> = HOME /\ ~g.moving
  THEN [g EXCEPT !.dead = FALSE, !.dx = 0, !.dy = 0,
                 !.mode = IF g.fright_timer > 0 THEN "frightened" ELSE "scatter"]
  ELSE g

\* a revival that does not look at the tile
Ghost_home_anywhere(g) ==
  IF g.mode = "eyes" /\ ~g.moving
  THEN [g EXCEPT !.dead = FALSE, !.mode = "scatter", !.dx = 0, !.dy = 0]
  ELSE g

\* the end of Ghost.update: an Eyes pursuer at rest on the home tile revives
Ghost_home(g) ==
  IF g.mode = "eyes" /\ <<g.tx, g.ty>> = HOME /\ ~g.moving
  THEN [g EXCEPT !.dead = FALSE, !.mode = "scatter", !.dx = 0, !.dy = 0]
  ELSE g

\* Ghost.update: countdown, decision, movement, revival
Ghost_update(idx, g, pac, blinky_tile, c, late) ==
  The({Ghost_home(g3) :
         g3 \in {update_position_pixels(g2, GhostSpeed(g2), late) :
                   g2 \in {Ghost_decide(idx, g1, pac, blinky_tile, c) :
                             g1 \in {fright_tick(g)}}}})

\* the draws random.choice can make in this call
RandomChoices(g) ==
  LET g1 == fright_tick(g)
  IN IF g1.mode = "frightened" /\ ~g1.moving THEN 1..Len(Candidates(g1)) ELSE {1}

\* every result Ghost.update can have for pursuer idx
GhostOutcomes(idx, g, pac, blinky_tile) ==
  {Ghost_update(idx, g, pac, blinky_tile, c, late) :
     c \in RandomChoices(g), late \in BOOLEAN}

\* ----------------------------------------------------------- GAME OBJECTS
\* a trigger that leaves the timer of an already Frightened pursuer alone
trigger_fright_fresh(gs) ==
  [i \in 0..3 |->
     IF ~gs[i].dead /\ gs[i].mode # "frightened"
     THEN [gs[i] EXCEPT !.mode = "frightened", !.fright_timer = FRIGHT_DURATION]
     ELSE gs[i]]

\* the pursuers after trigger_fright (the counter is reset by the caller)
trigger_fright(gs) ==
  [i \in 0..3 |->
     IF ~gs[i].dead
     THEN [gs[i] EXCEPT !.mode = "frightened", !.fright_timer = FRIGHT_DURATION]
     ELSE gs[i]]

\* a broadcast that reaches the Frightened and Eyes pursuers as well
set_global_mode_all(gs, mode) == [i \in 0..3 |-> [gs[i] EXCEPT !.mode = mode]]

\* set_global_mode: the pursuers after the broadcast
set_global_mode(gs, mode) ==
  [i \in 0..3 |->
     IF gs[i].mode \notin {"frightened", "eyes"}
     THEN [gs[i] EXCEPT !.mode = mode]
     ELSE gs[i]]

score_table == <<200, 400, 800, 1600>>

Min(a, b) == IF a < b THEN a ELSE b

\* the points of an eat that ignore the counter
eat_points_first(n) == score_table[1]

\* pts = score_table[min(ghosts_eaten_in_power, 3)]
eat_points(n) == score_table[Min(n, 3) + 1]

\* squared pixel distance between the player and a pursuer
PixDistSq(p, g) ==
  LET ex == Pos(p)[1] - Pos(g)[1]
      ey == Pos(p)[2] - Pos(g)[2]
  IN ex * ex + ey * ey

\* math.hypot(player.px - g.px, player.py - g.py) < TILE * 0.6, when the
\* exact distance differs from 0.6 * TILE
Near(p, g) == 25 * PixDistSq(p, g) < 9 * TILE * TILE

\* The exact distance equals 0.6 * TILE: the float comparison (with
\* TILE * 0.6 = 14.399999999999999 and positions accumulated in floats)
\* goes either way.
Touching(p, g) == 25 * PixDistSq(p, g) = 9 * TILE * TILE
EdgeSet(p, gs) == {i \in 0..3 : Touching(p, gs[i])}

\* a reset that leaves the Eyes pursuers on their way home
reset_ghosts_keep_eyes(gs) ==
  [i \in 0..3 |->
     IF gs[i].mode = "eyes" THEN gs[i]
     ELSE [gs[i] EXCEPT !.px = tile_center_pixel(ghost_starts[i][1]),
                        !.py = tile_center_pixel(ghost_starts[i][2]), !.run = 0,
                        !.tx = ghost_starts[i][1], !.ty = ghost_starts[i][2],
                        !.dx = 0, !.dy = 0, !.moving = FALSE, !.warping = FALSE,
                        !.warp_target = None, !.mode = "scatter", !.dead = FALSE,
                        !.fright_timer = 0]]

\* the all-pursuer reset of check_collisions
reset_ghosts(gs) ==
  [i \in 0..3 |->
     [gs[i] EXCEPT !.px = tile_center_pixel(ghost_starts[i][1]),
                   !.py = tile_center_pixel(ghost_starts[i][2]), !.run = 0,
                   !.tx = ghost_starts[i][1], !.ty = ghost_starts[i][2],
                   !.dx = 0, !.dy = 0, !.moving = FALSE, !.warping = FALSE,
                   !.warp_target = None, !.mode = "scatter", !.dead = FALSE,
                   !.fright_timer = 0]]

\* a loop in which a killing pursuer in contact takes precedence over the
\* Frightened pursuers before it: the call resolves a death and eats nothing
RECURSIVE collide_one_outcome(_, _, _)
collide_one_outcome(i, st, ties) ==
  IF i > 3 THEN st
  ELSE IF \E k \in i..3 :
            /\ Near(st.player, st.ghosts[k]) \/ (k \in ties /\ Touching(st.player, st.ghosts[k]))
            /\ st.ghosts[k].mode \in {"chase", "scatter"} /\ ~st.ghosts[k].dead
       THEN [player |-> die(st.player),
             ghosts |-> reset_ghosts(st.ghosts),
             eaten |-> st.eaten]
       ELSE LET g == st.ghosts[i]
            IN IF /\ Near(st.player, g) \/ (i \in ties /\ Touching(st.player, g))
                  /\ g.mode = "frightened" /\ ~g.dead
               THEN collide_one_outcome(i + 1,
                      [player |-> [st.player EXCEPT !.score =
                                     st.player.score + eat_points(st.eaten)],
                       ghosts |-> [st.ghosts EXCEPT ![i] = kill_and_become_eyes(g)],
                       eaten |-> st.eaten + 1],
                      ties)
               ELSE collide_one_outcome(i + 1, st, ties)

\* the loop of check_collisions from pursuer i on; st = [player, ghosts, eaten];
\* ties is the set of pursuers at exactly the threshold distance for which
\* the float comparison dist < TILE * 0.6 comes out true
RECURSIVE collide_from(_, _, _)
collide_from(i, st, ties) ==
  IF i > 3 THEN st
  ELSE LET g == st.ghosts[i]
       IN IF Near(st.player, g) \/ (i \in ties /\ Touching(st.player, g))
          THEN IF g.mode = "frightened" /\ ~g.dead
               THEN collide_from(i + 1,
                      [player |-> [st.player EXCEPT !.score =
                                     st.player.score + eat_points(st.eaten)],
                       ghosts |-> [st.ghosts EXCEPT ![i] = kill_and_become_eyes(g)],
                       eaten |-> st.eaten + 1],
                      ties)
               ELSE IF g.mode # "eyes" /\ ~g.dead
                    THEN [player |-> die(st.player),
                          ghosts |-> reset_ghosts(st.ghosts),
                          eaten |-> st.eaten]
                    ELSE collide_from(i + 1, st, ties)
          ELSE collide_from(i + 1, st, ties)

check_collisions(st, ties) == IF ~st.player.alive THEN st ELSE collide_from(0, st, ties)

\* -------------------------------------------------------------- MAIN LOOP
\* bound on the number of simulated ticks of a run
MaxFrames == 12

\* the state at the first iteration of the main loop
GameStart ==
  /\ pc = "events"
  /\ paused = FALSE /\ game_over = FALSE /\ win = FALSE
  /\ mode_index = 0
  /\ mode_timer = MODE_SEQUENCE[1][2] * FPS
  /\ ghosts_eaten_in_power = 0
  /\ pellets = LevelPellets
  /\ power_pellets = LevelPowerPellets
  /\ player = Pacman(pac_start)
  /\ ghosts = set_global_mode([i \in 0..3 |-> Ghost(ghost_starts[i])], MODE_SEQUENCE[1][1])
  /\ frame = 0
  /\ frozen = FALSE

\* KEYDOWN K_p
KeyPause ==
  /\ pc = "events"
  /\ paused' = ~paused
  /\ UNCHANGED <<pc, game_over, win, mode_index, mode_timer, ghosts_eaten_in_power,
                 pellets, power_pellets, player, ghosts, frame, frozen>>

\* KEYDOWN arrow / WASD: player.queue_dir
KeyDir ==
  /\ pc = "events"
  /\ \E k \in 1..4 : player' = queue_dir(player, Dirs[k][1], Dirs[k][2])
  /\ UNCHANGED <<pc, paused, game_over, win, mode_index, mode_timer,
                 ghosts_eaten_in_power, pellets, power_pellets, ghosts, frame, frozen>>

\* a restart that leaves the mode cursor and countdown where they were
KeyRestart_keep_cursor ==
  /\ pc = "events"
  /\ game_over \/ win
  /\ pellets' = LevelPellets
  /\ power_pellets' = LevelPowerPellets
  /\ player' = Pacman(pac_start)
  /\ ghosts' = set_global_mode([i \in 0..3 |-> Ghost(ghost_starts[i])], MODE_SEQUENCE[1][1])
  /\ game_over' = FALSE /\ win' = FALSE
  /\ UNCHANGED <<pc, paused, mode_index, mode_timer, ghosts_eaten_in_power, frame, frozen>>

\* KEYDOWN K_r while the round is over: a new round
KeyRestart ==
  /\ pc = "events"
  /\ game_over \/ win
  /\ pellets' = LevelPellets
  /\ power_pellets' = LevelPowerPellets
  /\ player' = Pacman(pac_start)
  /\ ghosts' = set_global_mode([i \in 0..3 |-> Ghost(ghost_starts[i])], MODE_SEQUENCE[1][1])
  /\ game_over' = FALSE /\ win' = FALSE
  /\ mode_index' = 0
  /\ mode_timer' = MODE_SEQUENCE[1][2] * FPS
  /\ UNCHANGED <<pc, paused, ghosts_eaten_in_power, frame, frozen>>

\* a paused frame in which the mode timer keeps running
FramePaused_ticking ==
  /\ pc = "events"
  /\ paused
  /\ frozen' = TRUE
  /\ mode_timer' = IF mode_timer > 1 THEN mode_timer - 1 ELSE mode_timer
  /\ UNCHANGED <<pc, paused, game_over, win, mode_index,
                 ghosts_eaten_in_power, pellets, power_pellets, player, ghosts, frame>>

\* a frame while paused: drawing only, then continue
FramePaused ==
  /\ pc = "events"
  /\ paused
  /\ frozen' = TRUE
  /\ UNCHANGED <<pc, paused, game_over, win, mode_index, mode_timer,
                 ghosts_eaten_in_power, pellets, power_pellets, player, ghosts, frame>>

\* a frame after the round has ended in which the respawn countdown of a
\* caught player keeps running
FrameOver_counting ==
  /\ pc = "events"
  /\ ~paused
  /\ game_over \/ win
  /\ frozen' = TRUE
  /\ player' = IF ~player.alive /\ player.respawn_timer > 1
                THEN [player EXCEPT !.respawn_timer = @ - 1] ELSE player
  /\ UNCHANGED <<pc, paused, game_over, win, mode_index, mode_timer,
                 ghosts_eaten_in_power, pellets, power_pellets, ghosts, frame>>

\* a frame after the round has ended: the simulation block is skipped
FrameOver ==
  /\ pc = "events"
  /\ ~paused
  /\ game_over \/ win
  /\ frozen' = TRUE
  /\ UNCHANGED <<pc, paused, game_over, win, mode_index, mode_timer,
                 ghosts_eaten_in_power, pellets, power_pellets, player, ghosts, frame>>

\* a timer test that fires one tick late
timer_expired_late(t) == t < 0

\* `if mode_timer <= 0`, after the decrement
timer_expired(t) == t <= 0

\* the mode timer at the top of a simulated tick; runs are followed for
\* `limit` simulated ticks
ModeTimerTick(limit) ==
  /\ pc = "events"
  /\ ~paused
  /\ ~game_over /\ ~win
  /\ frame < limit
  /\ IF timer_expired(mode_timer - 1)
     THEN LET ni == (mode_index + 1) % Len(MODE_SEQUENCE)
          IN /\ mode_index' = ni
             /\ mode_timer' = MODE_SEQUENCE[ni + 1][2] * FPS
             /\ ghosts' = set_global_mode(ghosts, MODE_SEQUENCE[ni + 1][1])
     ELSE /\ mode_timer' = mode_timer - 1
          /\ UNCHANGED <<mode_index, ghosts>>
  /\ pc' = "player"
  /\ frozen' = FALSE
  /\ UNCHANGED <<paused, game_over, win, ghosts_eaten_in_power, pellets,
                 power_pellets, player, frame>>

ModeTimerStep == ModeTimerTick(MaxFrames)

\* a lives test that lets a player without lives respawn
has_lives_left_lenient(p) == p.lives >= 0

\* `if player.lives > 0` at the end of the respawn countdown
has_lives_left(p) == p.lives > 0

\* "player update": the respawn countdown, or Pacman.update and pick_up
PlayerStep ==
  /\ pc = "player"
  /\ pc' = "ghosts"
  /\ IF ~player.alive
     THEN LET t == player.respawn_timer - 1
              p == [player EXCEPT !.respawn_timer = t]
          IN /\ player' = IF t <= 0 /\ has_lives_left(p) THEN respawn(p) ELSE p
             /\ game_over' = IF t <= 0 /\ ~has_lives_left(p) THEN TRUE ELSE game_over
             /\ UNCHANGED <<pellets, power_pellets, ghosts, ghosts_eaten_in_power>>
     ELSE \E late \in Lates(Pacman_turn(player), PacSpeed) :
            LET p == Pacman_update(player, late)
                t == <<p.tx, p.ty>>
                pel == at_center(p) /\ t \in pellets
                pow == at_center(p) /\ t \in power_pellets
            IN /\ player' = [p EXCEPT !.score = p.score + (IF pel THEN 10 ELSE 0)
                                                        + (IF pow THEN 50 ELSE 0)]
               /\ pellets' = IF pel THEN pellets \ {t} ELSE pellets
               /\ power_pellets' = IF pow THEN power_pellets \ {t} ELSE power_pellets
               /\ ghosts' = IF pow THEN trigger_fright(ghosts) ELSE ghosts
               /\ ghosts_eaten_in_power' = IF pow THEN 0 ELSE ghosts_eaten_in_power
               /\ UNCHANGED game_over
  /\ UNCHANGED <<paused, win, mode_index, mode_timer, frame, frozen>>

\* "ghosts update": g.update(player, blinky_tile) for each pursuer, with
\* blinky_tile read before the loop
GhostsStep ==
  /\ pc = "ghosts"
  /\ pc' = "collide"
  /\ LET blinky_tile == <<ghosts[0].tx, ghosts[0].ty>>
     IN \E g0 \in GhostOutcomes(0, ghosts[0], player, blinky_tile),
           g1 \in GhostOutcomes(1, ghosts[1], player, blinky_tile),
           g2 \in GhostOutcomes(2, ghosts[2], player, blinky_tile),
           g3 \in GhostOutcomes(3, ghosts[3], player, blinky_tile) :
          ghosts' = [i \in 0..3 |-> <<g0, g1, g2, g3>>[i + 1]]
  /\ UNCHANGED <<paused, game_over, win, mode_index, mode_timer,
                 ghosts_eaten_in_power, pellets, power_pellets, player, frame, frozen>>

\* check_collisions()
CollisionStep ==
  /\ pc = "collide"
  /\ pc' = "win"
  /\ \E ties \in SUBSET EdgeSet(player, ghosts) :
       LET st == check_collisions([player |-> player, ghosts |-> ghosts,
                                   eaten |-> ghosts_eaten_in_power], ties)
       IN /\ player' = st.player
          /\ ghosts' = st.ghosts
          /\ ghosts_eaten_in_power' = st.eaten
  /\ UNCHANGED <<paused, game_over, win, mode_index, mode_timer,
                 pellets, power_pellets, frame, frozen>>

\* a win test that passes over a player who has just been caught
win_test_alive ==
  IF pellets = {} /\ power_pellets = {} /\ player.alive THEN TRUE ELSE win

\* `if not pellets and not power_pellets: win = True`
win_test ==
  IF pellets = {} /\ power_pellets = {} THEN TRUE ELSE win

\* the win test that ends a simulated tick
WinStep ==
  /\ pc = "win"
  /\ pc' = "events"
  /\ win' = win_test
  /\ frame' = frame + 1
  /\ UNCHANGED <<paused, game_over, mode_index, mode_timer, ghosts_eaten_in_power,
                 pellets, power_pellets, player, ghosts, frozen>>

Next ==
  \/ KeyPause
  \/ KeyDir
  \/ KeyRestart
  \/ FramePaused
  \/ FrameOver
  \/ ModeTimerStep
  \/ PlayerStep
  \/ GhostsStep
  \/ CollisionStep
  \/ WinStep

\* ----------------------------------------------------------------- SCENES
\* States of runs of the program, recorded at the end of a frame.  The game
\* needs thousands of frames to get from its start to a power pellet, a
\* caught pursuer, a lost life or a cleared maze; the runs of the model
\* start from the start of the game and from these states.
\* a state of a run of the program, 469 frames in: within the next frames
\* two Frightened pursuers are eaten in one tick
SceneDoubleEat ==
  [player |->
      [tx |-> 15, ty |-> 14, px |-> 1860, py |-> 1857, run |-> 0, dx |-> 0, dy |-> 1,
       moving |-> TRUE, warping |-> FALSE, warp_target |-> None,
       next_dx |-> 1, next_dy |-> 0, lives |-> 3, score |-> 930, alive |-> TRUE,
       respawn_timer |-> 0],
   ghosts |-> <<
      [tx |-> 16, ty |-> 15, px |-> 1980, py |-> 1855, run |-> 0, dx |-> 0, dy |-> -1,
       moving |-> TRUE, warping |-> FALSE, warp_target |-> None,
       mode |-> "frightened", dead |-> FALSE, fright_timer |-> 190],
      [tx |-> 13, ty |-> 13, px |-> 1613, py |-> 1620, run |-> 0, dx |-> -1, dy |-> 0,
       moving |-> TRUE, warping |-> FALSE, warp_target |-> None,
       mode |-> "scatter", dead |-> FALSE, fright_timer |-> 278],
      [tx |-> 14, ty |-> 14, px |-> 1740, py |-> 1810, run |-> 0, dx |-> 0, dy |-> 1,
       moving |-> TRUE, warping |-> FALSE, warp_target |-> None,
       mode |-> "scatter", dead |-> FALSE, fright_timer |-> 208],
      [tx |-> 16, ty |-> 15, px |-> 1980, py |-> 1855, run |-> 0, dx |-> 0, dy |-> -1,
       moving |-> TRUE, warping |-> FALSE, warp_target |-> None,
       mode |-> "frightened", dead |-> FALSE, fright_timer |-> 190] >>,
   pellets |->
      LevelPellets \
      {<<15,23>>,<<16,23>>,<<17,23>>,<<18,20>>,<<18,23>>,<<19,20>>,<<19,23>>,<<20,20>>,
       <<20,23>>,<<21,20>>,<<21,23>>,<<21,24>>,<<21,25>>,<<21,26>>,<<22,20>>,<<22,26>>,
       <<23,20>>,<<23,26>>,<<24,20>>,<<24,23>>,<<24,24>>,<<24,25>>,<<24,26>>,<<25,20>>,
       <<25,23>>,<<26,20>>,<<26,21>>,<<26,22>>},
   power_pellets |-> {<<1,3>>,<<1,23>>,<<26,3>>},
   mode_index |-> 1, mode_timer |-> 1151, ghosts_eaten_in_power |-> 2]

\* a state of a run of the program, 484 frames in: within the next frames
\* the player dies to a Scatter pursuer while two others are Eyes
SceneDeathEyes ==
  [player |->
      [tx |-> 16, ty |-> 15, px |-> 1928, py |-> 1860, run |-> 0, dx |-> -1, dy |-> 0,
       moving |-> TRUE, warping |-> FALSE, warp_target |-> None,
       next_dx |-> -1, next_dy |-> 0, lives |-> 3, score |-> 3330, alive |-> TRUE,
       respawn_timer |-> 0],
   ghosts |-> <<
      [tx |-> 15, ty |-> 15, px |-> 1844, py |-> 1860, run |-> 0, dx |-> -1, dy |-> 0,
       moving |-> TRUE, warping |-> FALSE, warp_target |-> None,
       mode |-> "eyes", dead |-> TRUE, fright_timer |-> 184],
      [tx |-> 13, ty |-> 13, px |-> 1508, py |-> 1620, run |-> 0, dx |-> -1, dy |-> 0,
       moving |-> TRUE, warping |-> FALSE, warp_target |-> None,
       mode |-> "scatter", dead |-> FALSE, fright_timer |-> 278],
      [tx |-> 14, ty |-> 15, px |-> 1789, py |-> 1860, run |-> 0, dx |-> 1, dy |-> 0,
       moving |-> TRUE, warping |-> FALSE, warp_target |-> None,
       mode |-> "scatter", dead |-> FALSE, fright_timer |-> 208],
      [tx |-> 15, ty |-> 15, px |-> 1844, py |-> 1860, run |-> 0, dx |-> -1, dy |-> 0,
       moving |-> TRUE, warping |-> FALSE, warp_target |-> None,
       mode |-> "eyes", dead |-> TRUE, fright_timer |-> 184] >>,
   pellets |->
      LevelPellets \
      {<<15,23>>,<<16,23>>,<<17,23>>,<<18,20>>,<<18,23>>,<<19,20>>,<<19,23>>,<<20,20>>,
       <<20,23>>,<<21,20>>,<<21,23>>,<<21,24>>,<<21,25>>,<<21,26>>,<<22,20>>,<<22,26>>,
       <<23,20>>,<<23,26>>,<<24,20>>,<<24,23>>,<<24,24>>,<<24,25>>,<<24,26>>,<<25,20>>,
       <<25,23>>,<<26,20>>,<<26,21>>,<<26,22>>},
   power_pellets |-> {<<1,3>>,<<1,23>>,<<26,3>>},
   mode_index |-> 1, mode_timer |-> 1136, ghosts_eaten_in_power |-> 4]

\* a state of a run of the program, 1934 frames in: within the next frames
\* the fourth pursuer of one power window is eaten
SceneFourthEat ==
  [player |->
      [tx |-> 15, ty |-> 13, px |-> 1860, py |-> 1672, run |-> 0, dx |-> 0, dy |-> 1,
       moving |-> TRUE, warping |-> FALSE, warp_target |-> None,
       next_dx |-> 0, next_dy |-> 1, lives |-> 1, score |-> 6910, alive |-> TRUE,
       respawn_timer |-> 0],
   ghosts |-> <<
      [tx |-> 15, ty |-> 15, px |-> 1860, py |-> 1840, run |-> 0, dx |-> 0, dy |-> -1,
       moving |-> TRUE, warping |-> FALSE, warp_target |-> None,
       mode |-> "frightened", dead |-> FALSE, fright_timer |-> 125],
      [tx |-> 13, ty |-> 13, px |-> 1613, py |-> 1620, run |-> 0, dx |-> -1, dy |-> 0,
       moving |-> TRUE, warping |-> FALSE, warp_target |-> None,
       mode |-> "scatter", dead |-> FALSE, fright_timer |-> 194],
      [tx |-> 14, ty |-> 14, px |-> 1740, py |-> 1775, run |-> 0, dx |-> 0, dy |-> 1,
       moving |-> TRUE, warping |-> FALSE, warp_target |-> None,
       mode |-> "scatter", dead |-> FALSE, fright_timer |-> 156],
      [tx |-> 11, ty |-> 14, px |-> 1429, py |-> 1740, run |-> 0, dx |-> 1, dy |-> 0,
       moving |-> TRUE, warping |-> FALSE, warp_target |-> None,
       mode |-> "scatter", dead |-> FALSE, fright_timer |-> 246] >>,
   pellets |->
      LevelPellets \
      {<<1,20>>,<<1,21>>,<<1,22>>,<<2,20>>,<<2,23>>,<<3,20>>,<<3,23>>,<<3,24>>,<<3,25>>,
       <<3,26>>,<<4,20>>,<<4,26>>,<<5,20>>,<<5,26>>,<<6,20>>,<<6,23>>,<<6,24>>,<<6,25>>,
       <<6,26>>,<<7,20>>,<<7,23>>,<<8,20>>,<<8,23>>,<<9,20>>,<<9,23>>,<<10,23>>,<<11,23>>,
       <<12,23>>,<<13,23>>,<<15,8>>,<<15,9>>,<<15,10>>,<<15,23>>,<<16,8>>,<<16,23>>,<<17,8>>,
       <<17,23>>,<<18,5>>,<<18,6>>,<<18,7>>,<<18,8>>,<<18,20>>,<<18,23>>,<<19,5>>,<<19,20>>,
       <<19,23>>,<<20,5>>,<<20,20>>,<<20,23>>,<<21,5>>,<<21,8>>,<<21,9>>,<<21,10>>,<<21,11>>,
       <<21,12>>,<<21,13>>,<<21,14>>,<<21,15>>,<<21,16>>,<<21,17>>,<<21,18>>,<<21,19>>,
       <<21,20>>,<<21,21>>,<<21,22>>,<<21,23>>,<<21,24>>,<<21,25>>,<<21,26>>,<<22,5>>,<<22,8>>,
       <<22,20>>,<<22,26>>,<<23,5>>,<<23,8>>,<<23,20>>,<<23,26>>,<<24,5>>,<<24,8>>,<<24,20>>,
       <<24,23>>,<<24,24>>,<<24,25>>,<<24,26>>,<<25,5>>,<<25,8>>,<<25,20>>,<<25,23>>,<<26,4>>,
       <<26,5>>,<<26,6>>,<<26,7>>,<<26,8>>,<<26,20>>,<<26,21>>,<<26,22>>},
   power_pellets |-> {<<1,3>>},
   mode_index |-> 2, mode_timer |-> 106, ghosts_eaten_in_power |-> 3]

\* a state of a run of the program, 602 frames in: within the next frames
\* the respawn countdown of a player with lives left expires
SceneRespawn ==
  [player |->
      [tx |-> 16, ty |-> 15, px |-> 1876, py |-> 1860, run |-> 0, dx |-> -1, dy |-> 0,
       moving |-> TRUE, warping |-> FALSE, warp_target |-> None,
       next_dx |-> -1, next_dy |-> 0, lives |-> 2, score |-> 3330, alive |-> FALSE,
       respawn_timer |-> 6],
   ghosts |-> <<
      [tx |-> 15, ty |-> 14, px |-> 1860, py |-> 1698, run |-> 0, dx |-> 0, dy |-> -1,
       moving |-> TRUE, warping |-> FALSE, warp_target |-> None,
       mode |-> "scatter", dead |-> FALSE, fright_timer |-> 0],
      [tx |-> 12, ty |-> 14, px |-> 1500, py |-> 1698, run |-> 0, dx |-> 0, dy |-> -1,
       moving |-> TRUE, warping |-> FALSE, warp_target |-> None,
       mode |-> "scatter", dead |-> FALSE, fright_timer |-> 0],
      [tx |-> 16, ty |-> 14, px |-> 1938, py |-> 1740, run |-> 0, dx |-> -1, dy |-> 0,
       moving |-> TRUE, warping |-> FALSE, warp_target |-> None,
       mode |-> "scatter", dead |-> FALSE, fright_timer |-> 0],
      [tx |-> 11, ty |-> 14, px |-> 1422, py |-> 1740, run |-> 0, dx |-> 1, dy |-> 0,
       moving |-> TRUE, warping |-> FALSE, warp_target |-> None,
       mode |-> "scatter", dead |-> FALSE, fright_timer |-> 0] >>,
   pellets |->
      LevelPellets \
      {<<15,23>>,<<16,23>>,<<17,23>>,<<18,20>>,<<18,23>>,<<19,20>>,<<19,23>>,<<20,20>>,
       <<20,23>>,<<21,20>>,<<21,23>>,<<21,24>>,<<21,25>>,<<21,26>>,<<22,20>>,<<22,26>>,
       <<23,20>>,<<23,26>>,<<24,20>>,<<24,23>>,<<24,24>>,<<24,25>>,<<24,26>>,<<25,20>>,
       <<25,23>>,<<26,20>>,<<26,21>>,<<26,22>>},
   power_pellets |-> {<<1,3>>,<<1,23>>,<<26,3>>},
   mode_index |-> 1, mode_timer |-> 1018, ghosts_eaten_in_power |-> 4]

\* a state of a run of the program, 2722 frames in: within the next frames
\* the respawn countdown of a player without lives expires
SceneLastLife ==
  [player |->
      [tx |-> 14, ty |-> 13, px |-> 1740, py |-> 1724, run |-> 0, dx |-> 0, dy |-> 1,
       moving |-> TRUE, warping |-> FALSE, warp_target |-> None,
       next_dx |-> 0, next_dy |-> 1, lives |-> 0, score |-> 9470, alive |-> FALSE,
       respawn_timer |-> 6],
   ghosts |-> <<
      [tx |-> 15, ty |-> 14, px |-> 1860, py |-> 1698, run |-> 0, dx |-> 0, dy |-> -1,
       moving |-> TRUE, warping |-> FALSE, warp_target |-> None,
       mode |-> "scatter", dead |-> FALSE, fright_timer |-> 0],
      [tx |-> 12, ty |-> 14, px |-> 1500, py |-> 1698, run |-> 0, dx |-> 0, dy |-> -1,
       moving |-> TRUE, warping |-> FALSE, warp_target |-> None,
       mode |-> "scatter", dead |-> FALSE, fright_timer |-> 0],
      [tx |-> 16, ty |-> 14, px |-> 1938, py |-> 1740, run |-> 0, dx |-> -1, dy |-> 0,
       moving |-> TRUE, warping |-> FALSE, warp_target |-> None,
       mode |-> "scatter", dead |-> FALSE, fright_timer |-> 0],
      [tx |-> 11, ty |-> 14, px |-> 1422, py |-> 1740, run |-> 0, dx |-> 1, dy |-> 0,
       moving |-> TRUE, warping |-> FALSE, warp_target |-> None,
       mode |-> "scatter", dead |-> FALSE, fright_timer |-> 0] >>,
   pellets |->
      {<<1,1>>,<<1,2>>,<<1,6>>,<<1,7>>,<<1,8>>,<<1,26>>,<<1,27>>,<<1,28>>,<<1,29>>,<<2,1>>,
       <<2,8>>,<<2,26>>,<<2,29>>,<<3,1>>,<<3,8>>,<<3,29>>,<<4,1>>,<<4,8>>,<<4,29>>,<<5,1>>,
       <<5,8>>,<<5,29>>,<<6,1>>,<<6,2>>,<<6,3>>,<<6,4>>,<<6,19>>,<<6,21>>,<<6,22>>,<<6,29>>,
       <<7,1>>,<<7,29>>,<<8,1>>,<<8,29>>,<<9,1>>,<<9,24>>,<<9,25>>,<<9,26>>,<<9,29>>,<<10,1>>,
       <<10,5>>,<<10,20>>,<<10,26>>,<<10,29>>,<<11,1>>,<<11,5>>,<<11,20>>,<<11,26>>,<<11,29>>,
       <<12,1>>,<<12,2>>,<<12,3>>,<<12,4>>,<<12,5>>,<<12,20>>,<<12,21>>,<<12,22>>,<<12,26>>,
       <<12,27>>,<<12,28>>,<<12,29>>,<<13,5>>,<<13,29>>,<<14,5>>,<<14,23>>,<<14,29>>,<<15,1>>,
       <<15,2>>,<<15,3>>,<<15,4>>,<<15,5>>,<<15,20>>,<<15,21>>,<<15,22>>,<<15,26>>,<<15,27>>,
       <<15,28>>,<<15,29>>,<<16,1>>,<<16,5>>,<<16,20>>,<<16,26>>,<<16,29>>,<<17,1>>,<<17,5>>,
       <<17,20>>,<<17,26>>,<<17,29>>,<<18,1>>,<<18,24>>,<<18,25>>,<<18,26>>,<<18,29>>,<<19,1>>,
       <<19,29>>,<<20,1>>,<<20,29>>,<<21,1>>,<<21,2>>,<<21,3>>,<<21,4>>,<<21,6>>,<<21,7>>,
       <<21,29>>,<<22,1>>,<<22,29>>,<<23,1>>,<<23,29>>,<<24,1>>,<<24,29>>,<<25,1>>,<<25,26>>,
       <<25,29>>,<<26,1>>,<<26,2>>,<<26,26>>,<<26,27>>,<<26,28>>,<<26,29>>},
   power_pellets |-> {},
   mode_index |-> 3, mode_timer |-> 518, ghosts_eaten_in_power |-> 2]

\* a state of a run of the program, 414 frames in: within the next frames
\* the scheduler leaves its first scatter phase while pursuers are Frightened and Eyes
SceneSchedule ==
  [player |->
      [tx |-> 15, ty |-> 11, px |-> 1808, py |-> 1380, run |-> 0, dx |-> -1, dy |-> 0,
       moving |-> TRUE, warping |-> FALSE, warp_target |-> None,
       next_dx |-> -1, next_dy |-> 0, lives |-> 3, score |-> 530, alive |-> TRUE,
       respawn_timer |-> 0],
   ghosts |-> <<
      [tx |-> 14, ty |-> 14, px |-> 1740, py |-> 1830, run |-> 0, dx |-> 0, dy |-> 1,
       moving |-> TRUE, warping |-> FALSE, warp_target |-> None,
       mode |-> "frightened", dead |-> FALSE, fright_timer |-> 245],
      [tx |-> 14, ty |-> 11, px |-> 1740, py |-> 1476, run |-> 0, dx |-> 0, dy |-> 1,
       moving |-> TRUE, warping |-> FALSE, warp_target |-> None,
       mode |-> "eyes", dead |-> TRUE, fright_timer |-> 278],
      [tx |-> 16, ty |-> 13, px |-> 1980, py |-> 1710, run |-> 0, dx |-> 0, dy |-> 1,
       moving |-> TRUE, warping |-> FALSE, warp_target |-> None,
       mode |-> "frightened", dead |-> FALSE, fright_timer |-> 245],
      [tx |-> 16, ty |-> 14, px |-> 1890, py |-> 1740, run |-> 0, dx |-> -1, dy |-> 0,
       moving |-> TRUE, warping |-> FALSE, warp_target |-> None,
       mode |-> "frightened", dead |-> FALSE, fright_timer |-> 245] >>,
   pellets |->
      LevelPellets \
      {<<15,23>>,<<16,23>>,<<17,23>>,<<18,20>>,<<18,23>>,<<19,20>>,<<19,23>>,<<20,20>>,
       <<20,23>>,<<21,20>>,<<21,23>>,<<21,24>>,<<21,25>>,<<21,26>>,<<22,20>>,<<22,26>>,
       <<23,20>>,<<23,26>>,<<24,20>>,<<24,23>>,<<24,24>>,<<24,25>>,<<24,26>>,<<25,20>>,
       <<25,23>>,<<26,20>>,<<26,21>>,<<26,22>>},
   power_pellets |-> {<<1,3>>,<<1,23>>,<<26,3>>},
   mode_index |-> 0, mode_timer |-> 6, ghosts_eaten_in_power |-> 1]

\* a state of a run of the program, 426 frames in: within the next frames
\* an Eyes pursuer gets home
SceneHome ==
  [player |->
      [tx |-> 14, ty |-> 11, px |-> 1740, py |-> 1458, run |-> 0, dx |-> 0, dy |-> 1,
       moving |-> TRUE, warping |-> FALSE, warp_target |-> None,
       next_dx |-> 0, next_dy |-> 1, lives |-> 3, score |-> 530, alive |-> TRUE,
       respawn_timer |-> 0],
   ghosts |-> <<
      [tx |-> 14, ty |-> 15, px |-> 1770, py |-> 1860, run |-> 0, dx |-> 1, dy |-> 0,
       moving |-> TRUE, warping |-> FALSE, warp_target |-> None,
       mode |-> "frightened", dead |-> FALSE, fright_timer |-> 233],
      [tx |-> 14, ty |-> 13, px |-> 1740, py |-> 1652, run |-> 0, dx |-> 0, dy |-> 1,
       moving |-> TRUE, warping |-> FALSE, warp_target |-> None,
       mode |-> "eyes", dead |-> TRUE, fright_timer |-> 278],
      [tx |-> 16, ty |-> 14, px |-> 1950, py |-> 1740, run |-> 0, dx |-> -1, dy |-> 0,
       moving |-> TRUE, warping |-> FALSE, warp_target |-> None,
       mode |-> "frightened", dead |-> FALSE, fright_timer |-> 233],
      [tx |-> 15, ty |-> 14, px |-> 1860, py |-> 1770, run |-> 0, dx |-> 0, dy |-> 1,
       moving |-> TRUE, warping |-> FALSE, warp_target |-> None,
       mode |-> "frightened", dead |-> FALSE, fright_timer |-> 233] >>,
   pellets |->
      LevelPellets \
      {<<15,23>>,<<16,23>>,<<17,23>>,<<18,20>>,<<18,23>>,<<19,20>>,<<19,23>>,<<20,20>>,
       <<20,23>>,<<21,20>>,<<21,23>>,<<21,24>>,<<21,25>>,<<21,26>>,<<22,20>>,<<22,26>>,
       <<23,20>>,<<23,26>>,<<24,20>>,<<24,23>>,<<24,24>>,<<24,25>>,<<24,26>>,<<25,20>>,
       <<25,23>>,<<26,20>>,<<26,21>>,<<26,22>>},
   power_pellets |-> {<<1,3>>,<<1,23>>,<<26,3>>},
   mode_index |-> 1, mode_timer |-> 1194, ghosts_eaten_in_power |-> 1]

\* a state of a run of the program, 1443 frames in: within the next frames
\* a power pellet is picked up while pursuers are Eyes, Chase and Scatter
ScenePower ==
  [player |->
      [tx |-> 26, ty |-> 4, px |-> 3180, py |-> 488, run |-> 0, dx |-> 0, dy |-> -1,
       moving |-> TRUE, warping |-> FALSE, warp_target |-> None,
       next_dx |-> 0, next_dy |-> -1, lives |-> 2, score |-> 2030, alive |-> TRUE,
       respawn_timer |-> 0],
   ghosts |-> <<
      [tx |-> 13, ty |-> 12, px |-> 1620, py |-> 1580, run |-> 0, dx |-> 0, dy |-> 1,
       moving |-> TRUE, warping |-> FALSE, warp_target |-> None,
       mode |-> "eyes", dead |-> TRUE, fright_timer |-> 4],
      [tx |-> 14, ty |-> 13, px |-> 1740, py |-> 1564, run |-> 0, dx |-> 0, dy |-> -1,
       moving |-> TRUE, warping |-> FALSE, warp_target |-> None,
       mode |-> "chase", dead |-> FALSE, fright_timer |-> 0],
      [tx |-> 15, ty |-> 14, px |-> 1916, py |-> 1740, run |-> 0, dx |-> 1, dy |-> 0,
       moving |-> TRUE, warping |-> FALSE, warp_target |-> None,
       mode |-> "chase", dead |-> FALSE, fright_timer |-> 0],
      [tx |-> 13, ty |-> 15, px |-> 1501, py |-> 1860, run |-> 0, dx |-> -1, dy |-> 0,
       moving |-> TRUE, warping |-> FALSE, warp_target |-> None,
       mode |-> "scatter", dead |-> FALSE, fright_timer |-> 41] >>,
   pellets |->
      LevelPellets \
      {<<1,20>>,<<1,21>>,<<1,22>>,<<2,20>>,<<2,23>>,<<3,20>>,<<3,23>>,<<3,24>>,<<3,25>>,
       <<3,26>>,<<4,20>>,<<4,26>>,<<5,20>>,<<5,26>>,<<6,20>>,<<6,23>>,<<6,24>>,<<6,25>>,
       <<6,26>>,<<7,20>>,<<7,23>>,<<8,20>>,<<8,23>>,<<9,20>>,<<9,23>>,<<10,23>>,<<11,23>>,
       <<12,23>>,<<13,23>>,<<15,23>>,<<16,23>>,<<17,23>>,<<18,20>>,<<18,23>>,<<19,20>>,
       <<19,23>>,<<20,20>>,<<20,23>>,<<21,8>>,<<21,9>>,<<21,10>>,<<21,11>>,<<21,12>>,<<21,13>>,
       <<21,14>>,<<21,20>>,<<21,23>>,<<21,24>>,<<21,25>>,<<21,26>>,<<22,8>>,<<22,20>>,<<22,26>>,
       <<23,8>>,<<23,20>>,<<23,26>>,<<24,8>>,<<24,20>>,<<24,23>>,<<24,24>>,<<24,25>>,<<24,26>>,
       <<25,8>>,<<25,20>>,<<25,23>>,<<26,4>>,<<26,5>>,<<26,6>>,<<26,7>>,<<26,8>>,<<26,20>>,
       <<26,21>>,<<26,22>>},
   power_pellets |-> {<<1,3>>,<<26,3>>},
   mode_index |-> 1, mode_timer |-> 177, ghosts_eaten_in_power |-> 2]

\* a state of a run of the program, 764 frames in: within the next frames
\* a power pellet is picked up while pursuers are Frightened and Eyes
ScenePowerAgain ==
  [player |->
      [tx |-> 1, ty |-> 4, px |-> 180, py |-> 488, run |-> 0, dx |-> 0, dy |-> -1,
       moving |-> TRUE, warping |-> FALSE, warp_target |-> None,
       next_dx |-> 0, next_dy |-> -1, lives |-> 3, score |-> 1020, alive |-> TRUE,
       respawn_timer |-> 0],
   ghosts |-> <<
      [tx |-> 13, ty |-> 14, px |-> 1660, py |-> 1740, run |-> 0, dx |-> 1, dy |-> 0,
       moving |-> TRUE, warping |-> FALSE, warp_target |-> None,
       mode |-> "frightened", dead |-> FALSE, fright_timer |-> 195],
      [tx |-> 15, ty |-> 8, px |-> 1860, py |-> 1132, run |-> 0, dx |-> 0, dy |-> 1,
       moving |-> TRUE, warping |-> FALSE, warp_target |-> None,
       mode |-> "eyes", dead |-> TRUE, fright_timer |-> 310],
      [tx |-> 9, ty |-> 17, px |-> 1140, py |-> 2140, run |-> 0, dx |-> 0, dy |-> 1,
       moving |-> TRUE, warping |-> FALSE, warp_target |-> None,
       mode |-> "frightened", dead |-> FALSE, fright_timer |-> 195],
      [tx |-> 9, ty |-> 6, px |-> 1140, py |-> 740, run |-> 0, dx |-> 0, dy |-> -1,
       moving |-> TRUE, warping |-> FALSE, warp_target |-> None,
       mode |-> "frightened", dead |-> FALSE, fright_timer |-> 195] >>,
   pellets |->
      LevelPellets \
      {<<1,4>>,<<1,5>>,<<2,5>>,<<3,5>>,<<4,5>>,<<5,5>>,<<6,5>>,<<7,5>>,<<8,5>>,<<9,5>>,<<10,5>>,
       <<11,5>>,<<12,5>>,<<13,5>>,<<14,5>>,<<15,5>>,<<15,23>>,<<16,5>>,<<16,23>>,<<17,5>>,
       <<17,23>>,<<18,5>>,<<18,23>>,<<19,5>>,<<19,23>>,<<20,5>>,<<20,23>>,<<21,5>>,<<21,8>>,
       <<21,9>>,<<21,10>>,<<21,11>>,<<21,12>>,<<21,13>>,<<21,14>>,<<21,15>>,<<21,16>>,<<21,17>>,
       <<21,18>>,<<21,19>>,<<21,20>>,<<21,23>>,<<21,24>>,<<21,25>>,<<21,26>>,<<22,5>>,<<22,8>>,
       <<22,20>>,<<22,26>>,<<23,5>>,<<23,8>>,<<23,20>>,<<23,26>>,<<24,5>>,<<24,8>>,<<24,20>>,
       <<24,23>>,<<24,24>>,<<24,25>>,<<24,26>>,<<25,5>>,<<25,8>>,<<25,20>>,<<25,23>>,<<26,4>>,
       <<26,5>>,<<26,6>>,<<26,7>>,<<26,8>>,<<26,20>>,<<26,21>>,<<26,22>>},
   power_pellets |-> {<<1,3>>,<<1,23>>},
   mode_index |-> 1, mode_timer |-> 856, ghosts_eaten_in_power |-> 1]

\* a state of a run of the program, 224 frames in: within the next frames
\* the player goes through the tunnel
SceneTunnel ==
  [player |->
      [tx |-> 27, ty |-> 14, px |-> 3352, py |-> 1740, run |-> 0, dx |-> 1, dy |-> 0,
       moving |-> TRUE, warping |-> TRUE, warp_target |-> <<0, 14>>,
       next_dx |-> -1, next_dy |-> 0, lives |-> 3, score |-> 160, alive |-> TRUE,
       respawn_timer |-> 0],
   ghosts |-> <<
      [tx |-> 16, ty |-> 13, px |-> 1980, py |-> 1676, run |-> 0, dx |-> 0, dy |-> 1,
       moving |-> TRUE, warping |-> FALSE, warp_target |-> None,
       mode |-> "scatter", dead |-> FALSE, fright_timer |-> 0],
      [tx |-> 11, ty |-> 13, px |-> 1380, py |-> 1676, run |-> 0, dx |-> 0, dy |-> 1,
       moving |-> TRUE, warping |-> FALSE, warp_target |-> None,
       mode |-> "scatter", dead |-> FALSE, fright_timer |-> 0],
      [tx |-> 15, ty |-> 15, px |-> 1916, py |-> 1860, run |-> 0, dx |-> 1, dy |-> 0,
       moving |-> TRUE, warping |-> FALSE, warp_target |-> None,
       mode |-> "scatter", dead |-> FALSE, fright_timer |-> 0],
      [tx |-> 12, ty |-> 15, px |-> 1444, py |-> 1860, run |-> 0, dx |-> -1, dy |-> 0,
       moving |-> TRUE, warping |-> FALSE, warp_target |-> None,
       mode |-> "scatter", dead |-> FALSE, fright_timer |-> 0] >>,
   pellets |->
      LevelPellets \
      {<<15,23>>,<<16,23>>,<<17,23>>,<<18,23>>,<<19,23>>,<<20,23>>,<<21,14>>,<<21,15>>,
       <<21,16>>,<<21,17>>,<<21,18>>,<<21,19>>,<<21,20>>,<<21,21>>,<<21,22>>,<<21,23>>},
   power_pellets |-> {<<1,3>>,<<1,23>>,<<26,3>>,<<26,23>>},
   mode_index |-> 0, mode_timer |-> 196, ghosts_eaten_in_power |-> 0]

\* a state of a run of the program, 3562 frames in: within the next frames
\* the last pellet is picked up
SceneWin ==
  [player |->
      [tx |-> 18, ty |-> 25, px |-> 2220, py |-> 3021, run |-> 0, dx |-> 0, dy |-> -1,
       moving |-> TRUE, warping |-> FALSE, warp_target |-> None,
       next_dx |-> 0, next_dy |-> -1, lives |-> 2, score |-> 3450, alive |-> TRUE,
       respawn_timer |-> 0],
   ghosts |-> <<
      [tx |-> 6, ty |-> 3, px |-> 780, py |-> 425, run |-> 0, dx |-> 0, dy |-> 1,
       moving |-> TRUE, warping |-> FALSE, warp_target |-> None,
       mode |-> "frightened", dead |-> FALSE, fright_timer |-> 6],
      [tx |-> 11, ty |-> 15, px |-> 1415, py |-> 1860, run |-> 0, dx |-> 1, dy |-> 0,
       moving |-> TRUE, warping |-> FALSE, warp_target |-> None,
       mode |-> "frightened", dead |-> FALSE, fright_timer |-> 6],
      [tx |-> 6, ty |-> 12, px |-> 780, py |-> 1435, run |-> 0, dx |-> 0, dy |-> -1,
       moving |-> TRUE, warping |-> FALSE, warp_target |-> None,
       mode |-> "frightened", dead |-> FALSE, fright_timer |-> 6],
      [tx |-> 18, ty |-> 20, px |-> 2320, py |-> 2460, run |-> 0, dx |-> 1, dy |-> 0,
       moving |-> TRUE, warping |-> FALSE, warp_target |-> None,
       mode |-> "frightened", dead |-> FALSE, fright_timer |-> 6] >>,
   pellets |->
      {<<18,24>>},
   power_pellets |-> {},
   mode_index |-> 5, mode_timer |-> 1178, ghosts_eaten_in_power |-> 0]

\* a state of a run of the program, 1777 frames in: within the next frames
\* the Frightened timers expire during a scatter phase of the scheduler
SceneExpire ==
  [player |->
      [tx |-> 18, ty |-> 15, px |-> 2220, py |-> 1821, run |-> 0, dx |-> 0, dy |-> -1,
       moving |-> TRUE, warping |-> FALSE, warp_target |-> None,
       next_dx |-> 0, next_dy |-> -1, lives |-> 2, score |-> 5500, alive |-> TRUE,
       respawn_timer |-> 0],
   ghosts |-> <<
      [tx |-> 15, ty |-> 14, px |-> 1750, py |-> 1740, run |-> 0, dx |-> -1, dy |-> 0,
       moving |-> TRUE, warping |-> FALSE, warp_target |-> None,
       mode |-> "frightened", dead |-> FALSE, fright_timer |-> 6],
      [tx |-> 15, ty |-> 15, px |-> 1860, py |-> 1750, run |-> 0, dx |-> 0, dy |-> -1,
       moving |-> TRUE, warping |-> FALSE, warp_target |-> None,
       mode |-> "frightened", dead |-> FALSE, fright_timer |-> 6],
      [tx |-> 13, ty |-> 13, px |-> 1620, py |-> 1510, run |-> 0, dx |-> 0, dy |-> -1,
       moving |-> TRUE, warping |-> FALSE, warp_target |-> None,
       mode |-> "frightened", dead |-> FALSE, fright_timer |-> 6],
      [tx |-> 15, ty |-> 17, px |-> 1860, py |-> 2100, run |-> 0, dx |-> -1, dy |-> 0,
       moving |-> FALSE, warping |-> FALSE, warp_target |-> None,
       mode |-> "eyes", dead |-> TRUE, fright_timer |-> 41] >>,
   pellets |->
      LevelPellets \
      {<<1,4>>,<<1,5>>,<<1,20>>,<<1,21>>,<<1,22>>,<<2,5>>,<<2,20>>,<<2,23>>,<<3,5>>,<<3,20>>,
       <<3,23>>,<<3,24>>,<<3,25>>,<<3,26>>,<<4,5>>,<<4,20>>,<<4,26>>,<<5,5>>,<<5,20>>,<<5,26>>,
       <<6,5>>,<<6,20>>,<<6,23>>,<<6,24>>,<<6,25>>,<<6,26>>,<<7,5>>,<<7,20>>,<<7,23>>,<<8,5>>,
       <<8,20>>,<<8,23>>,<<9,5>>,<<9,6>>,<<9,7>>,<<9,8>>,<<9,20>>,<<9,23>>,<<10,8>>,<<10,23>>,
       <<11,8>>,<<11,23>>,<<12,8>>,<<12,9>>,<<12,10>>,<<12,23>>,<<13,23>>,<<15,23>>,<<16,23>>,
       <<17,23>>,<<18,20>>,<<18,23>>,<<19,20>>,<<19,23>>,<<20,20>>,<<20,23>>,<<21,20>>,
       <<21,23>>,<<21,24>>,<<21,25>>,<<21,26>>,<<22,20>>,<<22,26>>,<<23,20>>,<<23,26>>,
       <<24,20>>,<<24,23>>,<<24,24>>,<<24,25>>,<<24,26>>,<<25,20>>,<<25,23>>,<<26,20>>,
       <<26,21>>,<<26,22>>},
   power_pellets |-> {<<26,3>>},
   mode_index |-> 2, mode_timer |-> 263, ghosts_eaten_in_power |-> 1]

\* a state of a run of the program, 1044 frames in: within the next frames
\* two Eyes pursuers get home, a Frightened pursuer is eaten, then another is eaten and the player dies in the same tick
SceneEatAndDie ==
  [player |->
      [tx |-> 14, ty |-> 12, px |-> 1740, py |-> 1578, run |-> 0, dx |-> 0, dy |-> 1,
       moving |-> TRUE, warping |-> FALSE, warp_target |-> None,
       next_dx |-> 0, next_dy |-> 1, lives |-> 2, score |-> 1470, alive |-> TRUE,
       respawn_timer |-> 0],
   ghosts |-> <<
      [tx |-> 14, ty |-> 15, px |-> 1740, py |-> 1825, run |-> 0, dx |-> 0, dy |-> -1,
       moving |-> TRUE, warping |-> FALSE, warp_target |-> None,
       mode |-> "frightened", dead |-> FALSE, fright_timer |-> 213],
      [tx |-> 15, ty |-> 13, px |-> 1825, py |-> 1620, run |-> 0, dx |-> -1, dy |-> 0,
       moving |-> TRUE, warping |-> FALSE, warp_target |-> None,
       mode |-> "frightened", dead |-> FALSE, fright_timer |-> 213],
      [tx |-> 14, ty |-> 13, px |-> 1740, py |-> 1675, run |-> 0, dx |-> 0, dy |-> 1,
       moving |-> TRUE, warping |-> FALSE, warp_target |-> None,
       mode |-> "eyes", dead |-> TRUE, fright_timer |-> 223],
      [tx |-> 14, ty |-> 13, px |-> 1740, py |-> 1732, run |-> 0, dx |-> 0, dy |-> 1,
       moving |-> TRUE, warping |-> FALSE, warp_target |-> None,
       mode |-> "eyes", dead |-> TRUE, fright_timer |-> 232] >>,
   pellets |->
      LevelPellets \
      {<<1,20>>,<<1,21>>,<<1,22>>,<<2,20>>,<<2,23>>,<<3,20>>,<<3,23>>,<<3,24>>,<<3,25>>,
       <<3,26>>,<<4,20>>,<<4,26>>,<<5,20>>,<<5,26>>,<<6,20>>,<<6,23>>,<<6,24>>,<<6,25>>,
       <<6,26>>,<<7,20>>,<<7,23>>,<<8,20>>,<<8,23>>,<<9,20>>,<<9,23>>,<<10,23>>,<<11,23>>,
       <<12,23>>,<<13,23>>,<<15,23>>,<<16,23>>,<<17,23>>,<<18,20>>,<<18,23>>,<<19,20>>,
       <<19,23>>,<<20,20>>,<<20,23>>,<<21,20>>,<<21,23>>,<<21,24>>,<<21,25>>,<<21,26>>,
       <<22,20>>,<<22,26>>,<<23,20>>,<<23,26>>,<<24,20>>,<<24,23>>,<<24,24>>,<<24,25>>,
       <<24,26>>,<<25,20>>,<<25,23>>,<<26,20>>,<<26,21>>,<<26,22>>},
   power_pellets |-> {<<1,3>>,<<26,3>>},
   mode_index |-> 1, mode_timer |-> 576, ghosts_eaten_in_power |-> 2]

\* a state of a run of the program, 1612 frames in: within the next frames
\* a pursuer is eaten and the scheduler fires while pursuers are Frightened, Scatter and Eyes
SceneSchedMixed ==
  [player |->
      [tx |-> 15, ty |-> 14, px |-> 1886, py |-> 1740, run |-> 0, dx |-> 1, dy |-> 0,
       moving |-> TRUE, warping |-> FALSE, warp_target |-> None,
       next_dx |-> 1, next_dy |-> 0, lives |-> 2, score |-> 5900, alive |-> TRUE,
       respawn_timer |-> 0],
   ghosts |-> <<
      [tx |-> 16, ty |-> 14, px |-> 1980, py |-> 1695, run |-> 0, dx |-> 0, dy |-> -1,
       moving |-> TRUE, warping |-> FALSE, warp_target |-> None,
       mode |-> "frightened", dead |-> FALSE, fright_timer |-> 187],
      [tx |-> 14, ty |-> 14, px |-> 1740, py |-> 1740, run |-> 0, dx |-> 0, dy |-> 0,
       moving |-> FALSE, warping |-> FALSE, warp_target |-> None,
       mode |-> "scatter", dead |-> FALSE, fright_timer |-> 195],
      [tx |-> 16, ty |-> 13, px |-> 1980, py |-> 1665, run |-> 0, dx |-> 0, dy |-> 1,
       moving |-> TRUE, warping |-> FALSE, warp_target |-> None,
       mode |-> "frightened", dead |-> FALSE, fright_timer |-> 187],
      [tx |-> 14, ty |-> 15, px |-> 1691, py |-> 1860, run |-> 0, dx |-> -1, dy |-> 0,
       moving |-> TRUE, warping |-> FALSE, warp_target |-> None,
       mode |-> "scatter", dead |-> FALSE, fright_timer |-> 244] >>,
   pellets |->
      LevelPellets \
      {<<1,20>>,<<1,21>>,<<1,22>>,<<2,20>>,<<2,23>>,<<3,20>>,<<3,23>>,<<3,24>>,<<3,25>>,
       <<3,26>>,<<4,20>>,<<4,26>>,<<5,20>>,<<5,26>>,<<6,20>>,<<6,23>>,<<6,24>>,<<6,25>>,
       <<6,26>>,<<7,20>>,<<7,23>>,<<8,20>>,<<8,23>>,<<9,20>>,<<9,23>>,<<10,23>>,<<11,23>>,
       <<12,23>>,<<13,23>>,<<15,8>>,<<15,9>>,<<15,10>>,<<15,23>>,<<16,8>>,<<16,23>>,<<17,8>>,
       <<17,23>>,<<18,5>>,<<18,6>>,<<18,7>>,<<18,8>>,<<18,20>>,<<18,23>>,<<19,5>>,<<19,20>>,
       <<19,23>>,<<20,5>>,<<20,20>>,<<20,23>>,<<21,5>>,<<21,20>>,<<21,23>>,<<21,24>>,<<21,25>>,
       <<21,26>>,<<22,5>>,<<22,20>>,<<22,26>>,<<23,5>>,<<23,20>>,<<23,26>>,<<24,5>>,<<24,20>>,
       <<24,23>>,<<24,24>>,<<24,25>>,<<24,26>>,<<25,5>>,<<25,20>>,<<25,23>>,<<26,4>>,<<26,5>>,
       <<26,20>>,<<26,21>>,<<26,22>>},
   power_pellets |-> {<<1,3>>},
   mode_index |-> 1, mode_timer |-> 8, ghosts_eaten_in_power |-> 2]

\* a state of a run of the program, 4046 frames in: within the next frames
\* the last pellet is picked up in the tick in which a Chase pursuer reaches the player
SceneWinDeath ==
  [player |->
      [tx |-> 18, ty |-> 25, px |-> 2220, py |-> 3008, run |-> 0, dx |-> 0, dy |-> -1,
       moving |-> TRUE, warping |-> FALSE, warp_target |-> None,
       next_dx |-> 0, next_dy |-> -1, lives |-> 2, score |-> 3450, alive |-> TRUE,
       respawn_timer |-> 0],
   ghosts |-> <<
      [tx |-> 18, ty |-> 23, px |-> 2220, py |-> 2820, run |-> 0, dx |-> 1, dy |-> 0,
       moving |-> FALSE, warping |-> FALSE, warp_target |-> None,
       mode |-> "chase", dead |-> FALSE, fright_timer |-> 0],
      [tx |-> 15, ty |-> 15, px |-> 1908, py |-> 1860, run |-> 0, dx |-> 1, dy |-> 0,
       moving |-> TRUE, warping |-> FALSE, warp_target |-> None,
       mode |-> "chase", dead |-> FALSE, fright_timer |-> 0],
      [tx |-> 6, ty |-> 20, px |-> 860, py |-> 2460, run |-> 0, dx |-> 1, dy |-> 0,
       moving |-> TRUE, warping |-> FALSE, warp_target |-> None,
       mode |-> "chase", dead |-> FALSE, fright_timer |-> 0],
      [tx |-> 7, ty |-> 29, px |-> 836, py |-> 3540, run |-> 0, dx |-> -1, dy |-> 0,
       moving |-> TRUE, warping |-> FALSE, warp_target |-> None,
       mode |-> "chase", dead |-> FALSE, fright_timer |-> 0] >>,
   pellets |->
      {<<18,24>>},
   power_pellets |-> {},
   mode_index |-> 5, mode_timer |-> 694, ghosts_eaten_in_power |-> 0]

\* a state of a run of the program, 1339 frames in: within the next frames
\* a Chase pursuer reaches the dead end of the tunnel row
SceneDeadEnd ==
  [player |->
      [tx |-> 26, ty |-> 14, px |-> 3063, py |-> 1740, run |-> 0, dx |-> -1, dy |-> 0,
       moving |-> TRUE, warping |-> FALSE, warp_target |-> None,
       next_dx |-> -1, next_dy |-> 0, lives |-> 3, score |-> 950, alive |-> TRUE,
       respawn_timer |-> 0],
   ghosts |-> <<
      [tx |-> 1, ty |-> 14, px |-> 108, py |-> 1740, run |-> 0, dx |-> -1, dy |-> 0,
       moving |-> TRUE, warping |-> FALSE, warp_target |-> None,
       mode |-> "chase", dead |-> FALSE, fright_timer |-> 0],
      [tx |-> 21, ty |-> 15, px |-> 2580, py |-> 1916, run |-> 0, dx |-> 0, dy |-> 1,
       moving |-> TRUE, warping |-> FALSE, warp_target |-> None,
       mode |-> "chase", dead |-> FALSE, fright_timer |-> 0],
      [tx |-> 11, ty |-> 15, px |-> 1452, py |-> 1860, run |-> 0, dx |-> 1, dy |-> 0,
       moving |-> TRUE, warping |-> FALSE, warp_target |-> None,
       mode |-> "chase", dead |-> FALSE, fright_timer |-> 0],
      [tx |-> 11, ty |-> 14, px |-> 1380, py |-> 1812, run |-> 0, dx |-> 0, dy |-> 1,
       moving |-> TRUE, warping |-> FALSE, warp_target |-> None,
       mode |-> "chase", dead |-> FALSE, fright_timer |-> 0] >>,
   pellets |->
      LevelPellets \
      {<<1,26>>,<<1,27>>,<<1,28>>,<<1,29>>,<<2,26>>,<<2,29>>,<<3,26>>,<<3,29>>,<<4,26>>,
       <<4,29>>,<<5,26>>,<<5,29>>,<<6,23>>,<<6,24>>,<<6,25>>,<<6,26>>,<<6,29>>,<<7,23>>,
       <<7,29>>,<<8,23>>,<<8,29>>,<<9,23>>,<<9,29>>,<<10,23>>,<<10,29>>,<<11,23>>,<<11,29>>,
       <<12,23>>,<<12,29>>,<<13,23>>,<<13,29>>,<<14,23>>,<<14,29>>,<<15,20>>,<<15,21>>,
       <<15,22>>,<<15,23>>,<<15,29>>,<<16,20>>,<<16,23>>,<<16,29>>,<<17,20>>,<<17,23>>,
       <<17,29>>,<<18,20>>,<<18,23>>,<<18,29>>,<<19,20>>,<<19,23>>,<<19,29>>,<<20,20>>,
       <<20,23>>,<<20,29>>,<<21,14>>,<<21,15>>,<<21,16>>,<<21,17>>,<<21,18>>,<<21,19>>,
       <<21,20>>,<<21,21>>,<<21,22>>,<<21,23>>,<<21,24>>,<<21,25>>,<<21,26>>,<<21,29>>,
       <<22,20>>,<<22,26>>,<<22,29>>,<<23,20>>,<<23,26>>,<<23,29>>,<<24,20>>,<<24,23>>,
       <<24,24>>,<<24,25>>,<<24,26>>,<<24,29>>,<<25,20>>,<<25,23>>,<<25,26>>,<<25,29>>,
       <<26,20>>,<<26,21>>,<<26,22>>,<<26,26>>,<<26,27>>,<<26,28>>,<<26,29>>},
   power_pellets |-> {<<1,3>>,<<1,23>>,<<26,3>>},
   mode_index |-> 1, mode_timer |-> 281, ghosts_eaten_in_power |-> 0]

\* the main loop is about to process a frame in the state recorded in s
\* a state of a run of the program, 2602 frames in: within the next frames
\* the player, on the last life, is caught by a pursuer
SceneLastDeath ==
  [player |->
      [tx |-> 14, ty |-> 13, px |-> 1740, py |-> 1646, run |-> 0, dx |-> 0, dy |-> 1,
       moving |-> TRUE, warping |-> FALSE, warp_target |-> None,
       next_dx |-> 0, next_dy |-> 1, lives |-> 1, score |-> 9470, alive |-> TRUE,
       respawn_timer |-> 0],
   ghosts |-> <<
      [tx |-> 18, ty |-> 15, px |-> 2220, py |-> 1812, run |-> 0, dx |-> 0, dy |-> -1,
       moving |-> TRUE, warping |-> FALSE, warp_target |-> None,
       mode |-> "eyes", dead |-> TRUE, fright_timer |-> 241],
      [tx |-> 15, ty |-> 14, px |-> 1855, py |-> 1740, run |-> 0, dx |-> -1, dy |-> 0,
       moving |-> TRUE, warping |-> FALSE, warp_target |-> None,
       mode |-> "frightened", dead |-> FALSE, fright_timer |-> 67],
      [tx |-> 14, ty |-> 14, px |-> 1740, py |-> 1754, run |-> 0, dx |-> 0, dy |-> 1,
       moving |-> TRUE, warping |-> FALSE, warp_target |-> None,
       mode |-> "scatter", dead |-> FALSE, fright_timer |-> 88],
      [tx |-> 14, ty |-> 14, px |-> 1785, py |-> 1740, run |-> 0, dx |-> 1, dy |-> 0,
       moving |-> TRUE, warping |-> FALSE, warp_target |-> None,
       mode |-> "frightened", dead |-> FALSE, fright_timer |-> 67] >>,
   pellets |->
      {<<1,1>>,<<1,2>>,<<1,6>>,<<1,7>>,<<1,8>>,<<1,26>>,<<1,27>>,<<1,28>>,<<1,29>>,<<2,1>>,
       <<2,8>>,<<2,26>>,<<2,29>>,<<3,1>>,<<3,8>>,<<3,29>>,<<4,1>>,<<4,8>>,<<4,29>>,<<5,1>>,
       <<5,8>>,<<5,29>>,<<6,1>>,<<6,2>>,<<6,3>>,<<6,4>>,<<6,19>>,<<6,21>>,<<6,22>>,<<6,29>>,
       <<7,1>>,<<7,29>>,<<8,1>>,<<8,29>>,<<9,1>>,<<9,24>>,<<9,25>>,<<9,26>>,<<9,29>>,<<10,1>>,
       <<10,5>>,<<10,20>>,<<10,26>>,<<10,29>>,<<11,1>>,<<11,5>>,<<11,20>>,<<11,26>>,<<11,29>>,
       <<12,1>>,<<12,2>>,<<12,3>>,<<12,4>>,<<12,5>>,<<12,20>>,<<12,21>>,<<12,22>>,<<12,26>>,
       <<12,27>>,<<12,28>>,<<12,29>>,<<13,5>>,<<13,29>>,<<14,5>>,<<14,23>>,<<14,29>>,<<15,1>>,
       <<15,2>>,<<15,3>>,<<15,4>>,<<15,5>>,<<15,20>>,<<15,21>>,<<15,22>>,<<15,26>>,<<15,27>>,
       <<15,28>>,<<15,29>>,<<16,1>>,<<16,5>>,<<16,20>>,<<16,26>>,<<16,29>>,<<17,1>>,<<17,5>>,
       <<17,20>>,<<17,26>>,<<17,29>>,<<18,1>>,<<18,24>>,<<18,25>>,<<18,26>>,<<18,29>>,<<19,1>>,
       <<19,29>>,<<20,1>>,<<20,29>>,<<21,1>>,<<21,2>>,<<21,3>>,<<21,4>>,<<21,6>>,<<21,7>>,
       <<21,29>>,<<22,1>>,<<22,29>>,<<23,1>>,<<23,29>>,<<24,1>>,<<24,29>>,<<25,1>>,<<25,26>>,
       <<25,29>>,<<26,1>>,<<26,2>>,<<26,26>>,<<26,27>>,<<26,28>>,<<26,29>>},
   power_pellets |-> {},
   mode_index |-> 3, mode_timer |-> 638, ghosts_eaten_in_power |-> 2]

\* a state of a run of the program, 2034 frames in: within the next frames
\* the scheduler turns to a chase phase while pursuers are Frightened, Scatter and Eyes
SceneSchedChange ==
  [player |->
      [tx |-> 15, ty |-> 11, px |-> 1834, py |-> 1380, run |-> 0, dx |-> -1, dy |-> 0,
       moving |-> TRUE, warping |-> FALSE, warp_target |-> None,
       next_dx |-> -1, next_dy |-> 0, lives |-> 1, score |-> 3580, alive |-> TRUE,
       respawn_timer |-> 0],
   ghosts |-> <<
      [tx |-> 14, ty |-> 13, px |-> 1740, py |-> 1540, run |-> 0, dx |-> 0, dy |-> -1,
       moving |-> TRUE, warping |-> FALSE, warp_target |-> None,
       mode |-> "frightened", dead |-> FALSE, fright_timer |-> 257],
      [tx |-> 14, ty |-> 13, px |-> 1740, py |-> 1716, run |-> 0, dx |-> 0, dy |-> 1,
       moving |-> TRUE, warping |-> FALSE, warp_target |-> None,
       mode |-> "eyes", dead |-> TRUE, fright_timer |-> 281],
      [tx |-> 15, ty |-> 11, px |-> 1877, py |-> 1380, run |-> 0, dx |-> -1, dy |-> 0,
       moving |-> TRUE, warping |-> FALSE, warp_target |-> None,
       mode |-> "eyes", dead |-> TRUE, fright_timer |-> 260],
      [tx |-> 14, ty |-> 13, px |-> 1740, py |-> 1716, run |-> 0, dx |-> 0, dy |-> 1,
       moving |-> TRUE, warping |-> FALSE, warp_target |-> None,
       mode |-> "eyes", dead |-> TRUE, fright_timer |-> 288] >>,
   pellets |->
      LevelPellets \
      {<<1,4>>,<<1,5>>,<<2,5>>,<<3,5>>,<<4,5>>,<<5,5>>,<<6,5>>,<<7,5>>,<<8,5>>,<<9,5>>,<<9,6>>,
       <<9,7>>,<<9,8>>,<<10,8>>,<<11,8>>,<<12,8>>,<<12,9>>,<<12,10>>,<<15,8>>,<<15,9>>,
       <<15,10>>,<<15,20>>,<<15,21>>,<<15,22>>,<<15,23>>,<<16,8>>,<<16,20>>,<<16,23>>,<<17,8>>,
       <<17,20>>,<<17,23>>,<<18,5>>,<<18,6>>,<<18,7>>,<<18,8>>,<<18,20>>,<<18,23>>,<<19,5>>,
       <<19,20>>,<<19,23>>,<<20,5>>,<<20,20>>,<<20,23>>,<<21,5>>,<<21,8>>,<<21,9>>,<<21,10>>,
       <<21,11>>,<<21,12>>,<<21,13>>,<<21,14>>,<<21,20>>,<<21,23>>,<<21,24>>,<<21,25>>,
       <<21,26>>,<<22,5>>,<<22,8>>,<<22,20>>,<<22,26>>,<<23,5>>,<<23,8>>,<<23,20>>,<<23,26>>,
       <<24,5>>,<<24,8>>,<<24,20>>,<<24,23>>,<<24,24>>,<<24,25>>,<<24,26>>,<<25,5>>,<<25,8>>,
       <<25,20>>,<<25,23>>,<<26,4>>,<<26,5>>,<<26,6>>,<<26,7>>,<<26,8>>,<<26,20>>,<<26,21>>,
       <<26,22>>},
   power_pellets |-> {<<1,23>>},
   mode_index |-> 2, mode_timer |-> 6, ghosts_eaten_in_power |-> 3]

\* a state of a run of the program, 5092 frames in: within the next frames
\* the player, on the last life, is caught in the tick in which the last pellet is picked up
SceneLastWinDeath ==
  [player |->
      [tx |-> 21, ty |-> 3, px |-> 2580, py |-> 368, run |-> 0, dx |-> 0, dy |-> -1,
       moving |-> TRUE, warping |-> FALSE, warp_target |-> None,
       next_dx |-> 0, next_dy |-> -1, lives |-> 1, score |-> 3450, alive |-> TRUE,
       respawn_timer |-> 0],
   ghosts |-> <<
      [tx |-> 21, ty |-> 1, px |-> 2580, py |-> 188, run |-> 0, dx |-> 0, dy |-> 1,
       moving |-> TRUE, warping |-> FALSE, warp_target |-> None,
       mode |-> "chase", dead |-> FALSE, fright_timer |-> 0],
      [tx |-> 15, ty |-> 9, px |-> 1860, py |-> 1092, run |-> 0, dx |-> 0, dy |-> -1,
       moving |-> TRUE, warping |-> FALSE, warp_target |-> None,
       mode |-> "chase", dead |-> FALSE, fright_timer |-> 0],
      [tx |-> 15, ty |-> 13, px |-> 1748, py |-> 1620, run |-> 0, dx |-> -1, dy |-> 0,
       moving |-> TRUE, warping |-> FALSE, warp_target |-> None,
       mode |-> "chase", dead |-> FALSE, fright_timer |-> 392],
      [tx |-> 11, ty |-> 20, px |-> 1396, py |-> 2460, run |-> 0, dx |-> 1, dy |-> 0,
       moving |-> TRUE, warping |-> FALSE, warp_target |-> None,
       mode |-> "chase", dead |-> FALSE, fright_timer |-> 0] >>,
   pellets |->
      {<<21,2>>},
   power_pellets |-> {},
   mode_index |-> 7, mode_timer |-> 599888, ghosts_eaten_in_power |-> 1]

InScene(s) ==
  /\ pc = "events"
  /\ paused = FALSE /\ game_over = FALSE /\ win = FALSE
  /\ mode_index = s.mode_index
  /\ mode_timer = s.mode_timer
  /\ ghosts_eaten_in_power = s.ghosts_eaten_in_power
  /\ pellets = s.pellets
  /\ power_pellets = s.power_pellets
  /\ player = s.player
  /\ ghosts = [i \in 0..3 |-> s.ghosts[i + 1]]
  /\ frame = 0
  /\ frozen = FALSE

Init ==
  \/ GameStart
  \/ InScene(SceneDoubleEat)
  \/ InScene(SceneDeathEyes)
  \/ InScene(SceneFourthEat)
  \/ InScene(SceneRespawn)
  \/ InScene(SceneLastLife)
  \/ InScene(SceneSchedule)
  \/ InScene(SceneHome)
  \/ InScene(ScenePower)
  \/ InScene(ScenePowerAgain)
  \/ InScene(SceneTunnel)
  \/ InScene(SceneWin)
  \/ InScene(SceneExpire)
  \/ InScene(SceneEatAndDie)
  \/ InScene(SceneSchedMixed)
  \/ InScene(SceneWinDeath)
  \/ InScene(SceneSchedChange)
  \/ InScene(SceneDeadEnd)

Spec == Init /\ [][Next]_vars

\* ------------------------------------------------------- THE EYES WALK
\* The walk home of an eaten pursuer, as a function iterated on its own
\* result: the Eyes branch of Ghost.update reads nothing but the pursuer's
\* tile, position and direction, and writes nothing but the pursuer.
\* SpecEyes applies that branch, and only that branch, again and again to
\* an eaten pursuer; the player, the other pursuers, the scheduler and the
\* collision check do not run in it.  The arguments are drawn as follows:
\* the state is the one a run of the program was in when its first pursuer
\* had just been eaten, and in it the place at which that pursuer was eaten
\* ranges over every tile a pursuer can be on.  Only the state with the
\* place left as it was is known to occur in a run.

\* the open tiles connected to the pursuers' start tiles
RECURSIVE Flood(_)
Flood(S) ==
  LET T == S \cup {t \in AllTiles :
                     /\ is_open(t[1], t[2])
                     /\ \E k \in 1..4 : <<t[1] + Dirs[k][1], t[2] + Dirs[k][2]>> \in S}
  IN IF T = S THEN S ELSE Flood(T)
PursuerTiles == Flood({ghost_starts[i] : i \in 0..3})

\* a state of a run of the program, 477 frames in: the first pursuer has just
\* been eaten, the three others are Frightened
SceneEaten ==
  [player |->
      [tx |-> 16, ty |-> 8, px |-> 2084, py |-> 1020, run |-> 0, dx |-> 1, dy |-> 0,
       moving |-> TRUE, warping |-> FALSE, warp_target |-> None,
       next_dx |-> 1, next_dy |-> 0, lives |-> 3, score |-> 570, alive |-> TRUE,
       respawn_timer |-> 0],
   ghosts |-> <<
      [tx |-> 17, ty |-> 8, px |-> 2150, py |-> 1020, run |-> 0, dx |-> 0, dy |-> 0,
       moving |-> FALSE, warping |-> FALSE, warp_target |-> None,
       mode |-> "eyes", dead |-> TRUE, fright_timer |-> 181],
      [tx |-> 12, ty |-> 14, px |-> 1500, py |-> 1690, run |-> 0, dx |-> 0, dy |-> -1,
       moving |-> TRUE, warping |-> FALSE, warp_target |-> None,
       mode |-> "frightened", dead |-> FALSE, fright_timer |-> 181],
      [tx |-> 14, ty |-> 12, px |-> 1740, py |-> 1450, run |-> 0, dx |-> 0, dy |-> -1,
       moving |-> TRUE, warping |-> FALSE, warp_target |-> None,
       mode |-> "frightened", dead |-> FALSE, fright_timer |-> 181],
      [tx |-> 11, ty |-> 14, px |-> 1430, py |-> 1740, run |-> 0, dx |-> 1, dy |-> 0,
       moving |-> TRUE, warping |-> FALSE, warp_target |-> None,
       mode |-> "frightened", dead |-> FALSE, fright_timer |-> 181] >>,
   pellets |->
      LevelPellets \
      {<<15,8>>,<<15,9>>,<<15,10>>,<<15,23>>,<<16,8>>,<<16,23>>,<<17,23>>,<<18,20>>,<<18,23>>,
       <<19,20>>,<<19,23>>,<<20,20>>,<<20,23>>,<<21,20>>,<<21,23>>,<<21,24>>,<<21,25>>,
       <<21,26>>,<<22,20>>,<<22,26>>,<<23,20>>,<<23,26>>,<<24,20>>,<<24,23>>,<<24,24>>,
       <<24,25>>,<<24,26>>,<<25,20>>,<<25,23>>,<<26,20>>,<<26,21>>,<<26,22>>},
   power_pellets |-> {<<1,3>>,<<1,23>>,<<26,3>>},
   mode_index |-> 1, mode_timer |-> 1142, ghosts_eaten_in_power |-> 1]

\* the pursuer that has been eaten in SceneEaten, and its Frightened timer
EatenIdx == CHOOSE i \in 0..3 : SceneEaten.ghosts[i + 1].mode = "eyes"
EatenTimer == SceneEaten.ghosts[EatenIdx + 1].fright_timer

\* How far from the centre of the tile it has left (in 1/5 px, along its
\* direction of travel) a Frightened pursuer in transit can be when
\* check_collisions looks at it.  A leg starts on a centre and is walked in
\* steps of the speed of the mode of each tick; the mode can change on the
\* way (scheduler, trigger_fright, expiry), and the last step before an eat
\* is a Frightened one.  A step that would end on the next centre or
\* beyond is the arrival, so the offsets stay below TILE; TILE itself is
\* the pursuer that stands on the next centre without having arrived (the
\* float comparison dist <= speed failed on a tie, see Lates).
EatenOffsets ==
  {o \in 1..TILE :
     \E a \in 0..(TILE \div speed_chase), b \in 0..(TILE \div speed_scatter),
        c \in 1..(TILE \div speed_fright) :
       o = a * speed_chase + b * speed_scatter + c * speed_fright}

\* the Frightened pursuers with timer f that check_collisions can find on
\* tile t: one that has just arrived on the centre, or one in transit
\* toward an open neighbour
FrightenedAt(t, f) ==
  LET g == [Ghost(t) EXCEPT !.mode = "frightened", !.fright_timer = f]
  IN {[g EXCEPT !.dx = Dirs[k][1], !.dy = Dirs[k][2]] :
        k \in {j \in 1..4 : is_open(t[1] - Dirs[j][1], t[2] - Dirs[j][2])}}
     \cup
     {[g EXCEPT !.px = @ + off * Dirs[k][1], !.py = @ + off * Dirs[k][2],
                !.dx = Dirs[k][1], !.dy = Dirs[k][2], !.moving = TRUE] :
        k \in {j \in 1..4 : is_open(t[1] + Dirs[j][1], t[2] + Dirs[j][2])},
        off \in EatenOffsets}

\* a pursuer eaten on tile t while its timer read f (any of
\* 1..FRIGHT_DURATION - 1): kill_and_become_eyes leaves the timer as it is
EatenAt(t, f) == {kill_and_become_eyes(g) : g \in FrightenedAt(t, f)}

\* SceneEaten with the eaten pursuer put at any place of PursuerTiles.  The
\* timer is the one of the scene: it is a field the walk carries along and
\* never reads, and walks with different timers share no state.
InitEyes ==
  \E t \in PursuerTiles : \E e \in EatenAt(t, EatenTimer) :
    InScene([SceneEaten EXCEPT !.ghosts[EatenIdx + 1] = e])

\* g.update(player, blinky_tile) for an Eyes pursuer
EyesUpdate ==
  /\ \E i \in 0..3 :
       /\ ghosts[i].mode = "eyes"
       /\ \E g \in GhostOutcomes(i, ghosts[i], player, <<ghosts[0].tx, ghosts[0].ty>>) :
            ghosts' = [ghosts EXCEPT ![i] = g]
  /\ UNCHANGED <<pc, paused, game_over, win, mode_index, mode_timer,
                 ghosts_eaten_in_power, pellets, power_pellets, player, frame, frozen>>

\* The update is applied as long as the pursuer is Eyes: the walk is
\* followed under the hypothesis that the ticks go on.
SpecEyes == InitEyes /\ [][EyesUpdate]_vars /\ WF_vars(EyesUpdate)

\* ------------------------------------------------------- THE LAST LIFE
\* Runs from a state shortly before the player is caught on the last life.
\* A living player is followed for MaxFrames ticks, a respawn countdown for
\* MaxLossFrames ticks, which is more than the 2 * FPS ticks it lasts.
MaxLossFrames == 130

LossTick == ModeTimerTick(IF player.alive THEN MaxFrames ELSE MaxLossFrames)

InitLoss ==
  \/ InScene(SceneLastDeath)
  \/ InScene(SceneLastWinDeath)

NextLoss ==
  \/ KeyPause
  \/ KeyDir
  \/ KeyRestart
  \/ FramePaused
  \/ FrameOver
  \/ LossTick
  \/ PlayerStep
  \/ GhostsStep
  \/ CollisionStep
  \/ WinStep

\* one iteration of the main loop past its event loop: the frame is drawn
\* only (paused, or the round over) or a tick is simulated, according to
\* the flags as the events of the frame have left them
LossFrame == FramePaused \/ FrameOver \/ LossTick

\* The main loop never stops iterating: after the events of a frame the
\* frame is processed, and a tick that has begun runs to its end.  Nothing
\* is assumed about the keys: P may be pressed any number of times between
\* two frames, and every frame may find the game paused.
SpecLoss ==
  /\ InitLoss
  /\ [][NextLoss]_vars
  /\ WF_vars(LossFrame)
  /\ WF_vars(PlayerStep) /\ WF_vars(GhostsStep)
  /\ WF_vars(CollisionStep) /\ WF_vars(WinStep)

\* ------------------------------------------------- THE FIRST SCATTER PHASE
\* Runs from the start of the game through the first phase of the
\* scheduler.  Direction keys are pressed during the first MaxKeyFrames
\* ticks only, the pause key at any time.
MaxScheduleFrames == 422
MaxKeyFrames == 3

KeyDirEarly == frame < MaxKeyFrames /\ KeyDir

ScheduleTick == ModeTimerTick(MaxScheduleFrames)

NextSchedule ==
  \/ KeyPause
  \/ KeyDirEarly
  \/ FramePaused
  \/ ScheduleTick
  \/ PlayerStep
  \/ GhostsStep
  \/ CollisionStep
  \/ WinStep

SpecSchedule == GameStart /\ [][NextSchedule]_vars

\* ------------------------------------------------------------ PROPERTIES

\* pursuer i is within the proximity threshold of the player: Surely when
\* the distance is below 0.6 * TILE, Possibly when it is below or exactly
\* that (the float comparison then goes either way)
Surely(i) == Near(player, ghosts[i])
Possibly(i) == Near(player, ghosts[i]) \/ Touching(player, ghosts[i])

\* C1: when check_collisions runs with the player alive, a Scatter or Chase
\* pursuer within the threshold and no Frightened pursuer within it, the
\* player loses exactly one life and is not alive, and all four pursuers
\* are on their start tiles in Scatter with dead = FALSE and fright_timer 0.
C1_DeathOnContact ==
  [][(/\ pc = "collide"
      /\ player.alive
      /\ \E i \in 0..3 : ghosts[i].mode \in {"scatter", "chase"} /\ Surely(i)
      /\ \A i \in 0..3 : ghosts[i].mode = "frightened" => ~Possibly(i))
     => (/\ player'.lives = player.lives - 1
         /\ ~player'.alive
         /\ \A i \in 0..3 :
              /\ <<ghosts'[i].tx, ghosts'[i].ty>> = ghost_starts[i]
              /\ ghosts'[i].mode = "scatter"
              /\ ~ghosts'[i].dead
              /\ ghosts'[i].fright_timer = 0)]_vars

\* check_collisions is about to run on a living player with a Scatter or
\* Chase pursuer within the threshold, no Frightened one near, and another
\* pursuer in Eyes mode
C1_Witness ==
  /\ pc = "collide"
  /\ player.alive
  /\ \E i \in 0..3 : ghosts[i].mode \in {"scatter", "chase"} /\ Surely(i)
  /\ \A i \in 0..3 : ghosts[i].mode = "frightened" => ~Possibly(i)
  /\ \E i \in 0..3 : ghosts[i].mode = "eyes"

\* a pursuer that is Eyes before a step and not after it
LeavesEyes(i) == ghosts[i].mode = "eyes" /\ ghosts'[i].mode # "eyes"

\* C2 as stated: a pursuer leaves Eyes only in a step at whose end its tile
\* is the home tile (14,14) and it is not in transit.
C2_LeavesEyesOnlyAtHome ==
  [][\A i \in 0..3 :
       LeavesEyes(i) => (<<ghosts'[i].tx, ghosts'[i].ty>> = <<14, 14>> /\ ~ghosts'[i].moving)]_vars

\* C2, amended: a pursuer leaves Eyes only for Scatter, and only (a) in its
\* update, at whose end it is at rest on the home tile (14,14); (b) in the
\* all-pursuer reset of check_collisions in a tick in which the player dies,
\* which puts it at rest on its own start tile; or (c) when a round is
\* restarted, which puts it at rest on its own start tile.
C2_LeavesEyesAtHomeOrReset ==
  [][\A i \in 0..3 :
       LeavesEyes(i) =>
         /\ ghosts'[i].mode = "scatter"
         /\ ~ghosts'[i].moving
         /\ \/ pc = "ghosts" /\ <<ghosts'[i].tx, ghosts'[i].ty>> = <<14, 14>>
            \/ /\ pc = "collide" /\ player.alive /\ ~player'.alive
               /\ <<ghosts'[i].tx, ghosts'[i].ty>> = ghost_starts[i]
            \/ /\ pc = "events" /\ (game_over \/ win) /\ ~game_over' /\ ~win'
               /\ <<ghosts'[i].tx, ghosts'[i].ty>> = ghost_starts[i]]_vars

\* a pursuer has just been revived by its update: it is at rest on the home
\* tile in Scatter with its direction cleared, check_collisions comes next
C2_Witness ==
  /\ pc = "collide"
  /\ \E i \in 0..3 :
       /\ ghosts[i].mode = "scatter" /\ ~ghosts[i].dead
       /\ <<ghosts[i].tx, ghosts[i].ty>> = HOME
       /\ ~ghosts[i].moving /\ ghosts[i].dx = 0 /\ ghosts[i].dy = 0

\* the decision an Eyes pursuer at rest on its tile makes, whichever open
\* neighbour it has come from: it takes the way back only where no other
\* neighbour tile is open
EyesNeverBack(g) ==
  \A k \in {j \in 1..4 : is_open(g.tx - Dirs[j][1], g.ty - Dirs[j][2])} :
    \A g1 \in {[g EXCEPT !.dx = Dirs[k][1], !.dy = Dirs[k][2]]} :
    \A h \in {choose_direction_toward(g1, HOME)} :
      <<h.dx, h.dy>> = <<-Dirs[k][1], -Dirs[k][2]>> =>
        \A j \in 1..4 : \/ Dirs[j] = <<-Dirs[k][1], -Dirs[k][2]>>
                        \/ ~is_open(g.tx + Dirs[j][1], g.ty + Dirs[j][2])

\* C3: from every place a pursuer can be eaten at, the Eyes walk reaches the
\* home tile (14,14) after finitely many ticks: the walk of the eaten
\* pursuer ends, so that eventually no pursuer is Eyes; a pursuer stops
\* being Eyes only at rest on the home tile, in Scatter; and on every tile
\* of the walk the decision obeys the no-reverse rule.
C3_EyesGetHome ==
  /\ <>(\A i \in 0..3 : ghosts[i].mode # "eyes")
  /\ [](\A i \in 0..3 : \A g \in {ghosts[i]} :
         (g.mode = "eyes" /\ ~g.moving) => EyesNeverBack(g))
  /\ [][\A i \in 0..3 :
         (ghosts[i].mode = "eyes" /\ ghosts'[i].mode # "eyes") =>
           /\ ghosts'[i].mode = "scatter" /\ ~ghosts'[i].dead /\ ~ghosts'[i].moving
           /\ <<ghosts'[i].tx, ghosts'[i].ty>> = <<14, 14>>]_vars

\* the eaten pursuer, whose start tile is not the home tile, is on the home
\* tile, revived
C3_Witness ==
  /\ ghost_starts[EatenIdx] # <<14, 14>>
  /\ ghosts[EatenIdx].mode = "scatter" /\ ~ghosts[EatenIdx].dead
  /\ <<ghosts[EatenIdx].tx, ghosts[EatenIdx].ty>> = <<14, 14>>
  /\ ~ghosts[EatenIdx].moving

\* the points of e successive eats when n pursuers were eaten before them,
\* with the table of the claim
RECURSIVE EatScore(_, _)
EatScore(n, e) ==
  IF e = 0 THEN 0
  ELSE <<200, 400, 800, 1600>>[(IF n < 3 THEN n ELSE 3) + 1] + EatScore(n + 1, e - 1)

\* C4: a power-pellet pickup sets ghosts_eaten_in_power to 0; each eat of a
\* Frightened pursuer in check_collisions adds score_table[min(n,3)] to the
\* score, n being the counter, and makes the counter n + 1 (e eats in one
\* call add the e successive table entries and make the counter n + e).
C4_EatScoring ==
  [][/\ (pc = "player" /\ power_pellets' # power_pellets) => ghosts_eaten_in_power' = 0
     /\ pc = "collide" =>
          LET n == ghosts_eaten_in_power
              e == ghosts_eaten_in_power' - n
              eaten == {i \in 0..3 : ghosts[i].mode = "frightened" /\ ghosts'[i].mode = "eyes"}
              near == {i \in 0..3 : ghosts[i].mode = "frightened" /\ Possibly(i)}
              sure == {i \in 0..3 : ghosts[i].mode = "frightened" /\ Surely(i)}
          IN /\ e >= 0
             /\ player'.score = player.score + EatScore(n, e)
             /\ player'.alive => (e = Cardinality(eaten) /\ sure \subseteq eaten /\ eaten \subseteq near)
             /\ e <= Cardinality(near)
             /\ ~player.alive => e = 0]_vars

\* the fourth pursuer of a power window has just been eaten: the counter is
\* 4 and a pursuer is Eyes, at rest, as kill_and_become_eyes leaves it
C4_Witness ==
  /\ pc = "win"
  /\ player.alive
  /\ ghosts_eaten_in_power = 4
  /\ \E i \in 0..3 : /\ ghosts[i].mode = "eyes" /\ ghosts[i].dead
                     /\ ~ghosts[i].moving /\ ghosts[i].dx = 0 /\ ghosts[i].dy = 0

\* C5: when a power pellet is picked up, every pursuer that is not Eyes is
\* Frightened with fright_timer = FRIGHT_DURATION afterwards, and every Eyes
\* pursuer keeps its mode, dead flag and timer.
C5_PowerFrightensAll ==
  [][(pc = "player" /\ power_pellets' # power_pellets) =>
       \A i \in 0..3 :
         IF ghosts[i].mode # "eyes"
         THEN ghosts'[i].mode = "frightened" /\ ghosts'[i].fright_timer = 8 * 60
         ELSE /\ ghosts'[i].mode = "eyes"
              /\ ghosts'[i].dead = ghosts[i].dead
              /\ ghosts'[i].fright_timer = ghosts[i].fright_timer]_vars

\* a power pellet has just been picked up (the counter is 0 and the pursuers'
\* updates come next) with one pursuer Eyes and the others Frightened with a
\* full timer
C5_Witness ==
  /\ pc = "ghosts"
  /\ ghosts_eaten_in_power = 0
  /\ \E i \in 0..3 : ghosts[i].mode = "eyes"
  /\ \E i \in 0..3 : ghosts[i].mode = "frightened"
  /\ \A i \in 0..3 : ghosts[i].mode # "eyes" =>
                       (ghosts[i].mode = "frightened" /\ ghosts[i].fright_timer = FRIGHT_DURATION)

\* C6: a pursuer that decides (its update finds it not in transit) commits
\* to the exact reverse of the direction it had only if no other direction
\* leads to an open neighbouring tile.
C6_ReverseOnlyAtDeadEnd ==
  [][pc = "ghosts" =>
       \A i \in 0..3 :
         LET g == ghosts[i]
             h == ghosts'[i]
         IN (/\ ~g.moving
             /\ <<g.dx, g.dy>> # <<0, 0>>
             /\ <<h.dx, h.dy>> = <<-g.dx, -g.dy>>)
            => \A k \in 1..4 :
                 Dirs[k] # <<-g.dx, -g.dy>> => ~is_open(g.tx + Dirs[k][1], g.ty + Dirs[k][2])]_vars

\* a pursuer has turned back at the left end of the tunnel row, which it
\* entered leftwards
C6_Witness ==
  /\ pc = "collide"
  /\ \E i \in 0..3 : /\ <<ghosts[i].tx, ghosts[i].ty>> = <<0, 14>>
                     /\ ghosts[i].moving /\ ghosts[i].dx = 1 /\ ghosts[i].dy = 0

\* C7: when the player arrives from a wrapping move, at the end of that
\* update its tile is the wrapped tile on the opposite edge of the same
\* row, its direction is unchanged, the warp state is cleared and, the next
\* tile in that direction being open, it is in transit again.  (Only the
\* player makes wrapping moves.)
C7_TunnelKeepsMoving ==
  [][(/\ pc = "player"
      /\ player.alive /\ player.moving
      /\ player.warping /\ player.warp_target # None
      /\ Reached(player, PacSpeed))
     => LET p == player
            q == player'
        IN /\ q.ty = p.ty
           /\ q.tx = (p.tx + p.dx) % MAZE_W
           /\ {p.tx, q.tx} = {0, MAZE_W - 1}
           /\ q.dx = p.dx /\ q.dy = p.dy
           /\ ~q.warping /\ q.warp_target = None
           /\ is_open(q.tx + q.dx, q.ty + q.dy) => q.moving]_vars

\* the player has just come out of the tunnel: it is on the centre of an
\* edge tile of the tunnel row, in transit into the grid
C7_Witness ==
  /\ pc = "ghosts"
  /\ player.alive
  /\ player.ty = 14
  /\ \/ player.tx = 0 /\ player.dx = 1
     \/ player.tx = MAZE_W - 1 /\ player.dx = -1
  /\ player.px = tile_center_pixel(player.tx)
  /\ player.moving /\ player.dy = 0
  /\ ~player.warping

\* idle on the centre of its tile, or in transit on the axis-aligned segment
\* from the centre of its tile to the centre of the next tile
OnCentreOrSegment(m) ==
  LET cx == tile_center_pixel(m.tx)
      cy == tile_center_pixel(m.ty)
      ox == Pos(m)[1] - cx
      oy == Pos(m)[2] - cy
  IN IF ~m.moving THEN ox = 0 /\ oy = 0
     ELSE /\ <<m.dx, m.dy>> \in {<<1, 0>>, <<-1, 0>>, <<0, 1>>, <<0, -1>>}
          /\ ox * m.dy = 0 /\ oy * m.dx = 0
          /\ 0 <= ox * m.dx + oy * m.dy
          /\ ox * m.dx + oy * m.dy <= TILE

\* C8: at the end of every tick the player and each pursuer is either idle
\* on the centre of its tile or in transit on the straight axis-aligned
\* segment between the centres of its tile and of the next tile.
C8_IdleOrInTransit ==
  (pc = "events" /\ frame > 0) =>
    /\ OnCentreOrSegment(player)
    /\ \A i \in 0..3 : OnCentreOrSegment(ghosts[i])

\* the rejection of C9: the neighbour is a wall or off the grid and has no
\* open wrapped partner
Rejected(m, d) ==
  LET nx == m.tx + d[1]
      ny == m.ty + d[2]
  IN /\ (~in_bounds(nx, ny) \/ MAZE[ny + 1][nx + 1] = "#")
     /\ ~(d[2] = 0 /\ in_bounds(nx % MAZE_W, ny) /\ MAZE[ny + 1][(nx % MAZE_W) + 1] # "#")

\* C9: the tile of the player and of every pursuer is inside the grid and
\* not a wall, and start_move into a wall or off the grid (no open wrapped
\* partner) leaves the mover as it is.
C9_TilesOpen ==
  /\ \A m \in {player} \cup {ghosts[i] : i \in 0..3} :
       /\ 0 <= m.tx /\ m.tx < 28 /\ 0 <= m.ty /\ m.ty < 31
       /\ MAZE[m.ty + 1][m.tx + 1] # "#"
  /\ \A k \in 1..4 :
       /\ Rejected(player, Dirs[k]) => start_move(player, Dirs[k][1], Dirs[k][2]) = player
       /\ \A i \in 0..3 :
            Rejected(ghosts[i], Dirs[k]) => start_move(ghosts[i], Dirs[k][1], Dirs[k][2]) = ghosts[i]

\* the player's update has just rejected a queued move into a wall: the
\* player is at rest with the direction still queued
C9_Witness ==
  /\ pc = "ghosts"
  /\ player.alive /\ ~player.moving
  /\ <<player.next_dx, player.next_dy>> # <<0, 0>>
  /\ Rejected(player, <<player.next_dx, player.next_dy>>)

\* C10: when both item sets are empty at the end of a tick, the win flag
\* is true at the end of that tick, whatever the player's lives and alive
\* flag.
C10_WinWhenCleared ==
  (pc = "events" /\ pellets = {} /\ power_pellets = {}) => win

\* the last pellet was picked up in the tick that has just ended, the
\* tick in which the player was caught
C10_Witness ==
  /\ pc = "events"
  /\ pellets = {} /\ power_pellets = {}
  /\ win /\ ~frozen
  /\ ~player.alive /\ player.lives = 1

\* the player has been caught on the last life
Lost == player.lives = 0 /\ ~player.alive

\* a step that restarts a finished round
Restarts ==
  /\ pc = "events" /\ (game_over \/ win)
  /\ ~game_over' /\ ~win' /\ player'.lives = 3 /\ player'.alive

\* the respawn countdown: die() sets it to 2 * 60 ticks, the player update
\* of each simulated tick takes one off, game_over is set by the player
\* update that takes it to 0 with no lives left, and a player without lives
\* stays not alive until a restart
LossCountdown ==
  /\ (player.alive /\ ~player'.alive) => (pc = "collide" /\ player'.respawn_timer = 2 * 60)
  /\ (~player.alive /\ ~player'.alive /\ player'.respawn_timer # player.respawn_timer)
       => (pc = "player" /\ player'.respawn_timer = player.respawn_timer - 1)
  /\ (~game_over /\ game_over')
       => (Lost /\ pc = "player" /\ player.respawn_timer = 1 /\ player'.respawn_timer = 0)
  /\ (Lost /\ pc = "player" /\ player.respawn_timer = 1) => game_over'
  /\ (Lost /\ player'.alive) => Restarts

\* the last frame processed was a paused one: it found paused true at the
\* test that follows the event loop
PausedFrame == frozen /\ ~game_over /\ ~win

\* the game does not stay paused forever: it is not the case that from some
\* frame on every frame finds it paused
NotPausedForever == []<>(~PausedFrame)

\* C11 as stated: whenever the player's lives reach 0 then, unless the game
\* stays paused forever, game_over eventually becomes true, exactly when
\* the 2 * FPS-tick respawn countdown expires, and the player is never
\* respawned.
C11_LostEventually ==
  /\ NotPausedForever => (Lost ~> game_over)
  /\ [][LossCountdown]_vars

\* C11, amended: whenever a tick ends with the player's lives at 0 and the
\* round not won then, unless the game stays paused forever, game_over
\* eventually becomes true, exactly when the 2 * FPS-tick respawn countdown
\* expires, and the player is never respawned.  (A death on the last life
\* in the tick that picks up the last pellet ends the tick with win set:
\* the countdown never runs.)
C11_LostUnlessWon ==
  /\ NotPausedForever => ((Lost /\ ~win /\ pc = "events") ~> game_over)
  /\ [][LossCountdown]_vars

\* the countdown after the death on the last life has run out, game_over
\* is set, and a frame has been processed since
C11_Witness ==
  /\ game_over /\ Lost /\ ~win
  /\ pc = "events" /\ frozen /\ player.respawn_timer = 0

\* no death and no power-pellet pickup since the start of the game
Untouched ==
  /\ player.lives = 3 /\ player.alive
  /\ power_pellets = LevelPowerPellets

\* C12: from a fresh round, with no power pellet picked up and no death,
\* every pursuer is in Scatter and the scheduler at index 0 during each of
\* the first 7 * 60 - 1 simulated ticks; in the next simulated tick the
\* scheduler is at index 1 and every pursuer is in Chase when the player
\* and the pursuers are updated.  frame counts simulated ticks only.
C12_FirstScatterPhase ==
  Untouched =>
    /\ (frame < 419 \/ (frame = 419 /\ pc = "events")) =>
          /\ mode_index = 0
          /\ mode_timer = 420 - frame - (IF pc = "events" THEN 0 ELSE 1)
          /\ \A i \in 0..3 : ghosts[i].mode = "scatter"
    /\ (frame = 419 /\ pc \in {"player", "ghosts"}) =>
          /\ mode_index = 1
          /\ mode_timer = 20 * 60
          /\ \A i \in 0..3 : ghosts[i].mode = "chase"

\* the 420th simulated tick of an untouched round: the pursuers are about
\* to be updated, all in Chase
C12_Witness ==
  /\ Untouched
  /\ frame = 419 /\ pc = "ghosts"
  /\ mode_index = 1
  /\ \A i \in 0..3 : ghosts[i].mode = "chase"

\* the fields of a mover that C13 lists (the queued direction of the player
\* is not among them)
MoverSim(m) == <<m.tx, m.ty, Pos(m), m.dx, m.dy, m.moving>>
SimState ==
  <<mode_index, mode_timer,
    MoverSim(player), player.lives, player.score, player.alive, player.respawn_timer,
    [i \in 0..3 |-> <<MoverSim(ghosts[i]), ghosts[i].mode, ghosts[i].dead,
                      ghosts[i].fright_timer>>],
    pellets, power_pellets, ghosts_eaten_in_power, win, game_over>>

\* C13 as stated: a frame processed while paused changes no simulation
\* state and does not get to check_collisions: every step from a paused
\* state to a paused state leaves the simulation state alone and stays in
\* the event phase.
C13_PausedFreeze ==
  [][(paused /\ paused') => (SimState' = SimState /\ pc' = "events")]_vars

\* C13, amended: a frame processed while paused changes no simulation state
\* and does not get to check_collisions, unless the round is over and R is
\* pressed in that frame: the restart is carried out in the event loop,
\* before the pause test, and the new round stays paused.
C13_PausedFreezeUnlessRestart ==
  [][(paused /\ paused') =>
       /\ pc' = "events"
       /\ SimState' = SimState \/ Restarts]_vars

\* a paused frame has been processed in the middle of a round, with a
\* pursuer in transit and the mode timer running
C13_Witness ==
  /\ pc = "events" /\ paused /\ frozen
  /\ ~game_over /\ ~win /\ frame > 0
  /\ player.alive
  /\ \E i \in 0..3 : ghosts[i].moving

\* C14: after a restart (R pressed while game_over or win holds) the whole
\* round state equals that of a freshly started game: the player, the four
\* pursuers, both item sets, the mode cursor and countdown, win and
\* game_over, and the eaten-in-window counter.
C14_RestartIsFresh ==
  [][(pc = "events" /\ (game_over \/ win) /\ ~game_over' /\ ~win') =>
       /\ player' = Pacman(<<14, 23>>)
       /\ \A i \in 0..3 :
            /\ <<ghosts'[i].tx, ghosts'[i].ty>> = ghost_starts[i]
            /\ ghosts'[i].mode = "scatter" /\ ~ghosts'[i].dead
            /\ ghosts'[i].fright_timer = 0
            /\ ~ghosts'[i].moving /\ <<ghosts'[i].dx, ghosts'[i].dy>> = <<0, 0>>
       /\ pellets' = LevelPellets /\ power_pellets' = LevelPowerPellets
       /\ mode_index' = 0 /\ mode_timer' = 7 * 60
       /\ ghosts_eaten_in_power' = 0]_vars

\* C14, amended: after a restart the round state equals that of a freshly
\* started game, except for the eaten-in-window counter, which the restart
\* leaves at the value it had in the previous round (the next power-pellet
\* pickup sets it to 0 before it is read).
C14_RestartIsFreshButCounter ==
  [][(pc = "events" /\ (game_over \/ win) /\ ~game_over' /\ ~win') =>
       /\ player' = Pacman(<<14, 23>>)
       /\ \A i \in 0..3 :
            /\ <<ghosts'[i].tx, ghosts'[i].ty>> = ghost_starts[i]
            /\ ghosts'[i].mode = "scatter" /\ ~ghosts'[i].dead
            /\ ghosts'[i].fright_timer = 0
            /\ ~ghosts'[i].moving /\ <<ghosts'[i].dx, ghosts'[i].dy>> = <<0, 0>>
       /\ pellets' = LevelPellets /\ power_pellets' = LevelPowerPellets
       /\ mode_index' = 0 /\ mode_timer' = 7 * 60
       /\ ghosts_eaten_in_power' = ghosts_eaten_in_power]_vars

\* a round restarted after a round in which pursuers were eaten: everything
\* is as at the start of the game, the counter is not
C14_Witness ==
  /\ pc = "events" /\ ~game_over /\ ~win
  /\ player = Pacman(<<14, 23>>)
  /\ pellets = LevelPellets /\ power_pellets = LevelPowerPellets
  /\ mode_index = 0 /\ mode_timer = 7 * 60
  /\ ghosts_eaten_in_power > 0

\* C15: when a pursuer's Frightened timer expires in its update, its mode
\* becomes the scheduler's current mode, MODE_SEQUENCE[mode_index][0]:
\* Scatter in a scatter phase, Chase in a chase phase.
C15_ExpiryFollowsScheduler ==
  [][\A i \in 0..3 :
       (/\ pc = "ghosts"
        /\ ghosts[i].mode = "frightened" /\ ~ghosts[i].dead
        /\ ghosts[i].fright_timer - 1 <= 0)
       => ghosts'[i].mode = MODE_SEQUENCE[mode_index + 1][1]]_vars

\* C16: a scheduler transition leaves every pursuer that is Frightened or
\* Eyes as it is (mode, dead flag, fright_timer) and sets the mode of every
\* other pursuer to the new scheduled mode.
C16_TransitionSparesFrightAndEyes ==
  [][(pc = "events" /\ pc' = "player" /\ mode_index' # mode_index) =>
       \A i \in 0..3 :
         IF ghosts[i].mode \in {"frightened", "eyes"}
         THEN /\ ghosts'[i].mode = ghosts[i].mode
              /\ ghosts'[i].dead = ghosts[i].dead
              /\ ghosts'[i].fright_timer = ghosts[i].fright_timer
         ELSE ghosts'[i].mode = MODE_SEQUENCE[mode_index' + 1][1]]_vars

\* the scheduler has just turned to a chase phase: a Frightened and an Eyes
\* pursuer are untouched, another pursuer is in Chase
C16_Witness ==
  /\ pc = "player"
  /\ mode_index = 3 /\ mode_timer = 20 * 60
  /\ \E i \in 0..3 : ghosts[i].mode = "frightened" /\ ghosts[i].fright_timer > 0
  /\ \E i \in 0..3 : ghosts[i].mode = "eyes" /\ ghosts[i].dead
  /\ \E i \in 0..3 : ghosts[i].mode = "chase"

\* C17: in every reachable state, for every pursuer, the dead flag is true
\* if and only if its mode is Eyes.
C17_DeadIffEyes ==
  \A i \in 0..3 : ghosts[i].dead <=> (ghosts[i].mode = "eyes")

\* one pursuer has just been eaten (Eyes, at rest, check_collisions has
\* run), another is Frightened, a third is in Scatter
C17_Witness ==
  /\ pc = "win"
  /\ \E i \in 0..3 : ghosts[i].mode = "eyes" /\ ghosts[i].dead /\ ~ghosts[i].moving
  /\ \E i \in 0..3 : ghosts[i].mode = "frightened" /\ ~ghosts[i].dead
  /\ \E i \in 0..3 : ghosts[i].mode = "scatter" /\ ~ghosts[i].dead

\* C18 as stated: a call of check_collisions never both eats a pursuer
\* (points awarded, counter advanced) and costs a life.
C18_OneOutcomePerTick ==
  [][pc = "collide" =>
       ~(/\ ghosts_eaten_in_power' > ghosts_eaten_in_power
         /\ player'.lives < player.lives)]_vars

\* the pursuers that kill on contact
Killers == {i \in 0..3 : ghosts[i].mode \in {"chase", "scatter"} /\ ~ghosts[i].dead}

\* C18, amended: a call of check_collisions costs at most one life; the
\* death is resolved at the first killing pursuer k in contact, in the
\* order 0..3; the Frightened pursuers in contact before k are eaten and
\* scored in that same call, none after k is, and the call ends with the
\* reset of all pursuers.
C18_DeathEndsTheCheck ==
  [][(pc = "collide" /\ player'.lives # player.lives) =>
       /\ player.alive /\ ~player'.alive
       /\ player'.lives = player.lives - 1
       /\ ghosts' = reset_ghosts(ghosts)
       /\ \E k \in Killers :
            /\ Possibly(k)
            /\ \A j \in Killers : j < k => ~Surely(j)
            /\ LET n == ghosts_eaten_in_power
                   e == ghosts_eaten_in_power' - n
                   near == {j \in 0..(k - 1) : ghosts[j].mode = "frightened" /\ Possibly(j)}
                   sure == {j \in 0..(k - 1) : ghosts[j].mode = "frightened" /\ Surely(j)}
               IN /\ Cardinality(sure) <= e /\ e <= Cardinality(near)
                  /\ player'.score = player.score + EatScore(n, e)]_vars

\* check_collisions is called with a Frightened pursuer in contact and,
\* after it in the order, a killing pursuer in contact: the call eats the
\* first and dies on the second
C18_Witness ==
  /\ pc = "collide" /\ player.alive
  /\ \E k \in Killers : \E j \in 0..(k - 1) :
       /\ Surely(k)
       /\ ghosts[j].mode = "frightened" /\ Surely(j)

\* C19: win and game_over are never both true, and a frame that starts
\* with either of them true changes no simulation state and simulates
\* nothing, unless it restarts the round.  (The flags are set inside a
\* tick, game_over by the player update and win by the test that ends the
\* tick; the frames that follow are the ones that find them true.)
C19_TerminalFlags ==
  /\ [](~(win /\ game_over))
  /\ [][(pc = "events" /\ (win \/ game_over)) =>
         \/ SimState' = SimState /\ pc' = "events"
         \/ Restarts]_vars

\* the round was won in the tick in which the player was caught, and an
\* unpaused frame has been processed since: the player is still not alive,
\* the respawn countdown still at its start, game_over false
C19_Witness ==
  /\ pc = "events" /\ frozen /\ ~paused
  /\ win /\ ~game_over
  /\ ~player.alive /\ player.respawn_timer = 2 * 60

\* C20: in every reachable state the lives are in 0..3, a player who is
\* alive has at least one life, and game_over implies no lives and not
\* alive; the lives only ever go down by one, from a value of at least 1
\* (die() is not called at 0), or back to 3 by a restart.
C20_LivesRange ==
  /\ [](/\ player.lives \in 0..3
        /\ player.alive => player.lives >= 1
        /\ game_over => (player.lives = 0 /\ ~player.alive))
  /\ [][player'.lives # player.lives =>
         \/ /\ pc = "collide" /\ player.alive /\ player.lives >= 1
            /\ player'.lives = player.lives - 1 /\ ~player'.alive
         \/ Restarts]_vars

\* the countdown after the death on the last life has expired: game_over
\* is set, the player has no lives and has not been respawned, and
\* check_collisions has run since without calling die() again
C20_Witness ==
  /\ game_over /\ pc = "win"
  /\ player.lives = 0 /\ ~player.alive /\ player.respawn_timer = 0

\* the pursuers that can still be eaten in the current power window
Frightened == {i \in 0..3 : ghosts[i].mode = "frightened" /\ ~ghosts[i].dead}

\* the points of e successive eats after n, read off the table without the clamp
RECURSIVE TableScore(_, _)
TableScore(n, e) ==
  IF e = 0 THEN 0 ELSE <<200, 400, 800, 1600>>[n + 1] + TableScore(n + 1, e - 1)

\* C21: between two power-pellet pickups each pursuer is eaten at most once:
\* the eats of the window and the pursuers still Frightened never add up to
\* more than 4, so ghosts_eaten_in_power is in 0..4; at every eat the
\* counter is at most 3, the pursuer eaten was Frightened and is Eyes
\* afterwards, and the eats score 200, 400, 800, 1600 in that order, the
\* clamp never truncating.
C21_OneEatPerWindow ==
  /\ [](/\ ghosts_eaten_in_power \in 0..4
        /\ ghosts_eaten_in_power + Cardinality(Frightened) <= 4)
  /\ [][(pc = "collide" /\ ghosts_eaten_in_power' # ghosts_eaten_in_power) =>
         LET n == ghosts_eaten_in_power
             e == ghosts_eaten_in_power' - n
         IN /\ e >= 1 /\ n + e <= 4
            /\ e <= Cardinality(Frightened)
            /\ \A i \in Frightened : ghosts'[i].mode # "frightened"
                  \/ ghosts'[i] = ghosts[i]
            /\ player'.score = player.score + TableScore(n, e)]_vars

\* the fourth eat of a power window has been scored with the player still
\* alive: the counter is 4, no pursuer is Frightened any more, and the
\* pursuer eaten last is Eyes, at rest
C21_Witness ==
  /\ pc = "win" /\ player.alive
  /\ ghosts_eaten_in_power = 4 /\ Frightened = {}
  /\ \E i \in 0..3 : ghosts[i].mode = "eyes" /\ ~ghosts[i].moving

\* C22: no pursuer ever starts a wrapping move: in every reachable state
\* each pursuer has warping = False and warp_target = None, stands on an
\* in-grid tile, and, when moving, heads for an in-grid open tile; at the
\* tunnel edge tiles (columns 0 and MAZE_W - 1) that leaves the way back only.
C22_PursuersNeverWrap ==
  \A i \in 0..3 :
    /\ ~ghosts[i].warping /\ ghosts[i].warp_target = None
    /\ in_bounds(ghosts[i].tx, ghosts[i].ty)
    /\ ghosts[i].moving => is_open(ghosts[i].tx + ghosts[i].dx, ghosts[i].ty + ghosts[i].dy)
    /\ (ghosts[i].moving /\ ghosts[i].tx = 0 /\ ghosts[i].dy = 0) => ghosts[i].dx = 1
    /\ (ghosts[i].moving /\ ghosts[i].tx = MAZE_W - 1 /\ ghosts[i].dy = 0) => ghosts[i].dx = -1

\* a pursuer that ran into the tunnel has reached the edge tile of the
\* grid, where start_move would accept the wrap, and has set off back
\* the way it came
C22_Witness ==
  \E i \in 0..3 :
    /\ ghosts[i].tx = 0 /\ start_move_ok(ghosts[i], -1, 0)
    /\ ghosts[i].moving /\ ghosts[i].dx = 1 /\ ghosts[i].dy = 0
    /\ ~ghosts[i].warping /\ ghosts[i].warp_target = None
    /\ Pos(ghosts[i])[1] > tile_center_pixel(0)
====
